---- MODULE Spec2Model ----
(***************************************************************************)
(* RP2040_Kernel: the DVFS engine (ramp engine, governors, shell writes).  *)
(* Core 1 runs the kernel loop (governor tick -> ramp_step); core 0 runs   *)
(* the shell.  ramp_step is split at the cross-core lockout and at the PLL *)
(* set, so that the other core's operations interleave where the code      *)
(* lets them.                                                              *)
(***************************************************************************)
EXTENDS Integers, Sequences, FiniteSets, TLC

(* ---------------- program constants ---------------- *)
MIN_KHZ == 125000
MAX_KHZ == 264000
RAMP_STEP_KHZ == 5000
RAMP_DELAY_MS == 10
FA_MAX_PROBES == 50
MV_DEFAULT == 1100
MV_1_20 == 1200
MV_1_30 == 1300
XOSC_KHZ == 12000
VCO_MIN_KHZ == 750000
VCO_MAX_KHZ == 1600000
FBDIV_MIN == 16
FBDIV_MAX == 320
POSTDIV_MAX == 7
BOOT_MS == 3000
METRICS_BUF_SZ == 128
PERSIST_SECTOR_SIZE == 65536
RP_PARAMS_OFFSET == 256
NAME_SZ == 56
WD_PERIOD_MS == 5000
RP_PARAMS_SZ == 88
SHOW_NAME_SZ == 64
SHOW_BUF_SZ == 4
WdStepMs == 1000

(* ---------------- bounds of the model ---------------- *)
MaxElapsedMs == 200
MaxCore0Ops == 2
FaSpan == 51
MaxSubmits == 130
MaxConsumes == 1
MaxPersistOps == 4
MaxWdMs == 12000
MaxPerfMs == 6000
MaxWdResets == 1
MaxTicks == 2             \* kernel-loop iterations followed in the two-core locking model
MaxRingCalls == 3         \* calls the two cores start on the shared metrics ring

NoGov == "none"

(* ---------------- PLL validator (check_sys_clock_khz) ---------------- *)
(* sys_clk = XOSC * fbdiv / (pd1 * pd2), VCO = XOSC * fbdiv in            *)
(* [750, 1600] MHz, fbdiv in [16, 320], pd1, pd2 in [1, 7].               *)
Achievable ==
    { (XOSC_KHZ * f) \div (p1 * p2) :
        <<f, p1, p2>> \in
          { t \in (FBDIV_MIN..FBDIV_MAX) \X (1..POSTDIV_MAX) \X (1..POSTDIV_MAX) :
               /\ XOSC_KHZ * t[1] >= VCO_MIN_KHZ
               /\ XOSC_KHZ * t[1] <= VCO_MAX_KHZ
               /\ (XOSC_KHZ * t[1]) % (t[2] * t[3]) = 0 } }

(* ---------------- vreg_for_khz: voltage/frequency table ---------------- *)
vreg_for_khz_low(khz) ==
    IF khz > 250000 THEN MV_1_20
    ELSE MV_DEFAULT

vreg_for_khz(khz) ==
    IF khz > 250000 THEN MV_1_30
    ELSE IF khz > 200000 THEN MV_1_20
    ELSE MV_DEFAULT

(* ---------------- find_achievable_khz ---------------- *)
(* The scan loop of find_achievable_khz, lines 99-113.  Iteration k tests *)
(* the probe k kHz from candidate, in the direction of the scan.          *)
FaProbe(up, candidate, k) == IF up THEN candidate + k ELSE candidate - k

(* The last iteration the loop reaches when no probe is accepted: the     *)
(* counter stops it after FA_MAX_PROBES probes (line 99), stepping up     *)
(* probe > limit does (line 106), stepping down probe == 0 or             *)
(* probe < limit (lines 108-110).                                         *)
FaLast(up, limit, candidate) ==
    LET room == IF up THEN limit - candidate
                ELSE IF candidate - limit < candidate THEN candidate - limit
                ELSE candidate
    IN  IF room < 0 THEN 0
        ELSE IF room < FA_MAX_PROBES - 1 THEN room
        ELSE FA_MAX_PROBES - 1

(* The loop returns the first probe, in the order tested, that the        *)
(* validator V accepts (line 101); with none it falls through to          *)
(* `return target` (line 115).                                            *)
FaScan(V, up, limit, candidate, target) ==
    LET hits == { k \in 0..FaLast(up, limit, candidate) :
                    FaProbe(up, candidate, k) \in V }
    IN  IF candidate \in V THEN candidate
        ELSE IF hits = {} THEN target
        ELSE FaProbe(up, candidate, CHOOSE k \in hits : \A j \in hits : k <= j)

find_achievable_khz(V, candidate, target) ==
    LET up    == (candidate <= target)
        limit == IF up THEN target ELSE candidate
    IN  FaScan(V, up, limit, candidate, target)


(* ---------------- governors: names and tunables ---------------- *)
GovNames == {"ondemand", "schedutil", "performance", "rp2040_perf"}

(* registry order after governors_init *)
registry == <<"ondemand", "schedutil", "performance", "rp2040_perf">>

governors_find_by_name(name) ==
    IF \E i \in 1..Len(registry) : registry[i] = name THEN name ELSE NoGov

(* static initialiser of rp_params *)
rp_params_default ==
    [ cooldown_ms         |-> 2000,
      ramp_up_cooldown_ms |-> 500,
      thr_high_intensity  |-> 80,
      thr_med_intensity   |-> 60,
      thr_low_intensity   |-> 20,
      dur_high_ms         |-> 500,
      dur_med_ms          |-> 250,
      dur_short_ms        |-> 200,
      temp_backoff_C      |-> 72,
      temp_restore_C      |-> 65,
      backoff_target_khz  |-> 200000,
      idle_target_khz     |-> 100000,
      idle_timeout_ms     |-> 5000 ]

NoRec == "norec"
NoSector == [name |-> NoRec, rp_valid |-> FALSE]

(* cooperative sleep at the end of each governor's tick *)
tick_sleep_ms(g) ==
    CASE g = "performance" -> 200
      [] g = "ondemand"    -> 80
      [] g = "schedutil"   -> 60
      [] g = "rp2040_perf" -> 40

(* ---------------- inputs of the model ---------------- *)
TempSet      == {40, 75}
SampleSet    == { <<95, 100>>, <<70, 600>>, <<10, 100>> }
SetMhzSet    == {100, 145, 4295093}
TuneInputs   == { <<"idle_target_khz", 125000>>, <<"idle_target_khz", 100000>>,
                  <<"nosuch", 1>> }
FlashNames   == {NoRec}
PllEdges     == {MAX_KHZ + 1, 250000}

VARIABLES
    target_khz, current_khz, current_voltage_mv,   \* shared globals, system.c
    vreg_mv, sys_clk_khz, pll_edge_khz,            \* hardware: VREG, clk_sys, silicon PLL limit
    cur_gov,                                       \* governors.c: current
    rp_params, rp_last_adjust_ms, rp_last_activity_ms, rp_in_idle_state,
    ond_last_idle_backoff_us,
    sch_last_high_util_us, sch_last_idle_backoff_us,
    flash_name, flash_rp,                          \* persisted records
    mbuf,                                          \* metrics ring, oldest first
    now_ms,                                        \* to_ms_since_boot
    pc1, tick_gov, rs, rs_ret, ramp_log,           \* core 1: position, ramp_step locals
    fail_from, fail_at,                            \* last failed PLL step (from, to) not yet superseded; 0 = none
    lockout_held,                                  \* multicore lockout taken by core 1
    pc0, pend_gov, ops_left,                      \* core 0: position in governors_set_current, operations still to come
    sector_ram,                                    \* persist_save: the RAM copy of the sector being written
    wd,                                            \* main.c: the liveness monitor of the main loop and core1_wdt_ping
    tick_until_ms,                                 \* the time up to which the governor loop is followed
    last_call,                                     \* the last call followed on its own: function, inputs, state before
    throttle_active,                               \* system.c:25
    todo,                                          \* per core: the steps still to run of the operation it is in
    mtx,                                           \* owner of metrics_lock, kernel_lock, log_mutex
    lockout,                                       \* multicore lockout: free, requested, held
    irq_off,                                       \* core 0 between save_and_disable_interrupts and restore_interrupts
    kernel_snap, ks_out, ks_ret,                   \* metrics.c: kernel_snap.gov_tick_count; the caller's copy and the returned validity
    stable_count, jitter_ok, notified_khz,         \* stability arbiter
    fa_valid, fa_cand, fa_target, fa_result, fa_pc, \* find_achievable_khz harness
    boot_inits,                                    \* governors whose init() ran in core1_entry's startup
    m_buf, m_head, m_tail, m_cnt,                  \* metrics.c: buf, head, tail, cnt
    fl_rec, fl_blob,                               \* flash sector: governor record at 0, tuning blob at RP_PARAMS_OFFSET
    p_name, p_blob, p_params,                      \* results of the last loads; the caller's parameter buffer
    p_saved_name, p_saved_blob, p_dirty, p_op, p_prev, p_ops, \* what was saved last, what was changed since, last call, the call before, calls so far
    m_n, m_base, m_clears, m_out, m_op             \* samples submitted so far / when last consumed, consumes so far, last aggregate, last call

vars == << wd, tick_until_ms, last_call, throttle_active, todo, mtx, lockout, irq_off,
           kernel_snap, ks_out, ks_ret, target_khz, current_khz, current_voltage_mv, vreg_mv, sys_clk_khz,
           pll_edge_khz, cur_gov, rp_params, rp_last_adjust_ms,
           rp_last_activity_ms, rp_in_idle_state, ond_last_idle_backoff_us,
           sch_last_high_util_us, sch_last_idle_backoff_us, flash_name,
           flash_rp, mbuf, now_ms, pc1, tick_gov, rs, rs_ret, ramp_log,
           fail_from, fail_at,
           lockout_held, pc0, pend_gov, ops_left, sector_ram, stable_count, jitter_ok,
           notified_khz, fa_valid, fa_cand, fa_target, fa_result,
           fa_pc, boot_inits, m_buf, m_head, m_tail, m_cnt, m_n, m_base,
           m_clears, m_out, m_op, fl_rec, fl_blob, p_name, p_blob, p_params,
           p_saved_name, p_saved_blob, p_dirty, p_op, p_prev, p_ops >>

shared_vars  == << target_khz, current_khz, current_voltage_mv >>
hw_vars      == << vreg_mv, sys_clk_khz, pll_edge_khz >>
gov_vars     == << rp_params, rp_last_adjust_ms, rp_last_activity_ms,
                   rp_in_idle_state, ond_last_idle_backoff_us,
                   sch_last_high_util_us, sch_last_idle_backoff_us >>
flash_vars   == << flash_name, flash_rp >>
core1_vars   == << pc1, tick_gov, rs, rs_ret, ramp_log, lockout_held >>
fail_vars    == << fail_from, fail_at >>
core0_vars   == << pc0, pend_gov, ops_left, sector_ram >>
arbiter_vars == << stable_count, jitter_ok, notified_khz >>
fa_vars      == << fa_valid, fa_cand, fa_target, fa_result, fa_pc >>
ring_vars    == << m_buf, m_head, m_tail, m_cnt, m_n, m_base, m_clears, m_out,
                   m_op >>
persist_vars == << fl_rec, fl_blob, p_name, p_blob, p_params, p_saved_name,
                   p_saved_blob, p_dirty, p_op, p_prev, p_ops >>
conc_vars    == << todo, mtx, lockout, irq_off, kernel_snap, ks_out, ks_ret >>
aux_vars     == << wd, tick_until_ms, last_call, throttle_active, conc_vars >>
unit_vars    == << ring_vars, persist_vars, aux_vars >>

rs_idle == [new_khz |-> 0, next_khz |-> 0, stepping_up |-> FALSE, ok |-> FALSE,
            from_khz |-> 0, from_mv |-> 0]

(* State when main() has launched core 1 (main.c:44): globals at their     *)
(* static initialisers, core 0 a lockout victim, flash as left by earlier  *)
(* runs.                                                                   *)
InitMainFrom(flash_names) ==
    /\ target_khz = MAX_KHZ
    /\ current_khz = MIN_KHZ
    /\ current_voltage_mv = MV_DEFAULT
    /\ vreg_mv = MV_DEFAULT
    /\ sys_clk_khz = MIN_KHZ
    /\ pll_edge_khz \in PllEdges
    /\ cur_gov = NoGov
    /\ rp_params = rp_params_default
    /\ rp_last_adjust_ms = 0
    /\ rp_last_activity_ms = 0
    /\ rp_in_idle_state = FALSE
    /\ ond_last_idle_backoff_us = 0
    /\ sch_last_high_util_us = 0
    /\ sch_last_idle_backoff_us = 0
    /\ flash_name \in flash_names
    /\ flash_rp = [valid |-> FALSE, params |-> rp_params_default]
    /\ mbuf = << >>
    /\ now_ms = BOOT_MS
    /\ pc1 = "boot"
    /\ tick_gov = NoGov
    /\ rs = rs_idle
    /\ rs_ret = FALSE
    /\ ramp_log = << >>
    /\ fail_from = 0
    /\ fail_at = 0
    /\ lockout_held = FALSE
    /\ pc0 = "shell"
    /\ pend_gov = NoGov
    /\ ops_left = MaxCore0Ops
    /\ sector_ram = NoSector
    /\ stable_count = 0
    /\ jitter_ok = FALSE
    /\ notified_khz = 0
    /\ boot_inits = << >>

InitMain == InitMainFrom(FlashNames)

FaIdle ==
    /\ fa_valid = {}
    /\ fa_cand = 0
    /\ fa_target = 0
    /\ fa_result = 0
    /\ fa_pc = "off"

(* metrics.c statics: buf zeroed, head = tail = cnt = 0.  m_buf holds the *)
(* slots written so far; a slot never written reads as the zero record.   *)
metric_rec_zero == [workload |-> 0, intensity |-> 0, duration_ms |-> 0, ts_ms |-> 0]

buf_at(b, i) == IF i \in DOMAIN b THEN b[i] ELSE metric_rec_zero

agg_zero == [count |-> 0, sum_work |-> 0, sum_int |-> 0, sum_dur |-> 0,
             last_ts_ms |-> 0, since |-> 0, upto |-> 0]

RingIdle ==
    /\ m_buf = [i \in {} |-> metric_rec_zero]
    /\ m_head = 0
    /\ m_tail = 0
    /\ m_cnt = 0
    /\ m_n = 0
    /\ m_base = 0
    /\ m_clears = 0
    /\ m_out = agg_zero
    /\ m_op = "none"


(* ---------------- persist.c: words, bytes, CRC ---------------- *)
(* A uint32_t is kept as << high 16 bits, low 16 bits >>.                 *)
PERSIST_MAGIC   == << 18262, 20295 >>      \* 0x47564F47
RP_PARAMS_MAGIC == << 21072, 20560 >>      \* 0x52505050
CRC_INIT        == << 42405, 42405 >>      \* 0xA5A5A5A5
ERASED_WORD     == << 65535, 65535 >>      \* erased flash reads 0xFF

(* little-endian bytes of a word / the word of a length < 65536 *)
WordBytes(w) == << w[2] % 256, w[2] \div 256, w[1] % 256, w[1] \div 256 >>
WordOf(n) == << 0, n >>
Rep(c, n) == [i \in 1..n |-> c]

(* one round of simple_crc: crc = (crc << 7) ^ p[i] in uint32_t.  The     *)
(* shifted value has its low 7 bits clear, so the XOR puts the byte's low *)
(* 7 bits there and flips bit 7 when the byte's bit 7 is set.             *)
CrcRound(crc, b) ==
    LET lo_sh == (crc[2] * 128) % 65536
        carry == (crc[2] * 128) \div 65536
        hi_sh == (crc[1] * 128 + carry) % 65536
        bit7  == (lo_sh \div 128) % 2
    IN  << hi_sh, (lo_sh - (bit7 * 128)) + ((((bit7 + (b \div 128)) % 2) * 128) + (b % 128)) >>

(* simple_crc lines 33-39: the loop's rounds for bytes lo..hi, in order.  *)
(* The range is taken in two halves and the first half's value is looked  *)
(* at before the second half starts, which keeps the evaluation shallow.  *)
RECURSIVE CrcRange(_, _, _, _)
CrcRange(crc, bytes, lo, hi) ==
    IF lo > hi THEN crc
    ELSE IF lo = hi THEN CrcRound(crc, bytes[lo])
    ELSE LET left == CrcRange(crc, bytes, lo, (lo + hi) \div 2)
         IN  IF left \in Seq(Nat)
             THEN CrcRange(left, bytes, (lo + hi) \div 2 + 1, hi)
             ELSE left

simple_crc(bytes) == CrcRange(CRC_INIT, bytes, 1, Len(bytes))

(* the C string held in a char array: the bytes before the first 0 *)
CStr(a) ==
    IF \E i \in 1..Len(a) : a[i] = 0
    THEN SubSeq(a, 1, (CHOOSE i \in 1..Len(a) : a[i] = 0 /\ \A j \in 1..(i - 1) : a[j] /= 0) - 1)
    ELSE a

(* persist_save lines 44-49: memset 0xFF, magic, ver = 1,                 *)
(* strncpy(rec.name, name, sizeof(rec.name) - 1), crc over the 64 bytes   *)
(* before the crc field.                                                  *)
persist_save_rec_short(name) ==
    LET n     == IF Len(name) < NAME_SZ - 2 THEN Len(name) ELSE NAME_SZ - 2
        field == SubSeq(name, 1, n) \o Rep(0, NAME_SZ - 2 - n) \o << 255, 255 >>
        bytes == WordBytes(PERSIST_MAGIC) \o WordBytes(WordOf(1)) \o field
    IN  [bytes |-> bytes, crc |-> simple_crc(bytes)]

persist_save_rec(name) ==
    LET n     == IF Len(name) < NAME_SZ - 1 THEN Len(name) ELSE NAME_SZ - 1
        field == SubSeq(name, 1, n) \o Rep(0, NAME_SZ - 1 - n) \o << 255 >>
        bytes == WordBytes(PERSIST_MAGIC) \o WordBytes(WordOf(1)) \o field
    IN  [bytes |-> bytes, crc |-> simple_crc(bytes)]

(* persist_load(out, out_len) lines 80-89 on the record in flash *)
persist_load(rec, out_len) ==
    IF SubSeq(rec.bytes, 1, 4) /= WordBytes(PERSIST_MAGIC) THEN [rc |-> -1, name |-> << >>]
    ELSE IF simple_crc(rec.bytes) /= rec.crc THEN [rc |-> -1, name |-> << >>]
    ELSE LET field == [SubSeq(rec.bytes, 9, 8 + NAME_SZ) EXCEPT ![NAME_SZ] = 0]
             str   == CStr(field)
         IN  [rc |-> 0,
              name |-> IF Len(str) > out_len - 1 THEN SubSeq(str, 1, out_len - 1) ELSE str]

(* persist_save_rp_params lines 94-109: rc and the blob written at        *)
(* RP_PARAMS_OFFSET: magic, length, data, crc of the data                 *)
persist_save_rp_params_rc(buf) ==
    IF Len(buf) = 0 THEN -1
    ELSE IF Len(buf) > PERSIST_SECTOR_SIZE - RP_PARAMS_OFFSET - 16 THEN -1
    ELSE 0

persist_blob(buf) ==
    [magic |-> RP_PARAMS_MAGIC, llen |-> WordOf(Len(buf)), data |-> buf,
     crc |-> simple_crc(buf)]

(* persist_load_rp_params(out, maxlen) lines 121-139; out is the caller's *)
(* buffer of maxlen bytes, written by the memcpy of line 133 before the   *)
(* CRC is compared.  blob.data are the llen bytes that follow the length. *)
persist_load_rp_params_strict(blob, out, maxlen) ==
    IF maxlen = 0 THEN [rc |-> -1, out |-> out]
    ELSE IF blob.magic /= RP_PARAMS_MAGIC THEN [rc |-> -1, out |-> out]
    ELSE IF blob.llen[1] /= 0 \/ blob.llen[2] = 0 \/ blob.llen[2] >= maxlen
         THEN [rc |-> -1, out |-> out]
    ELSE LET llen == blob.llen[2]
             got  == blob.data \o SubSeq(out, llen + 1, maxlen)
         IN  IF blob.crc /= simple_crc(blob.data)
             THEN [rc |-> -1, out |-> got]
             ELSE [rc |-> llen, out |-> got]

persist_load_rp_params(blob, out, maxlen) ==
    IF maxlen = 0 THEN [rc |-> -1, out |-> out]
    ELSE IF blob.magic /= RP_PARAMS_MAGIC THEN [rc |-> -1, out |-> out]
    ELSE IF blob.llen[1] /= 0 \/ blob.llen[2] = 0 \/ blob.llen[2] > maxlen
         THEN [rc |-> -1, out |-> out]
    ELSE LET llen == blob.llen[2]
             got  == blob.data \o SubSeq(out, llen + 1, maxlen)
         IN  IF blob.crc /= simple_crc(blob.data)
             THEN [rc |-> -1, out |-> got]
             ELSE [rc |-> llen, out |-> got]

(* an erased sector, and the bytes standing for the built-in rp_params *)
rec_erased  == [bytes |-> Rep(255, 8 + NAME_SZ), crc |-> ERASED_WORD]
blob_erased == [magic |-> ERASED_WORD, llen |-> ERASED_WORD, data |-> << >>,
                crc |-> ERASED_WORD]
params_default == << 20, 0, 80 >>
NoName == << 0 >>

PersistIdle ==
    /\ fl_rec = rec_erased
    /\ fl_blob = blob_erased
    /\ p_name = [rc |-> -1, name |-> << >>]
    /\ p_blob = [rc |-> -1, out |-> << >>]
    /\ p_params = params_default
    /\ p_saved_name = NoName
    /\ p_saved_blob = << >>
    /\ p_dirty = {}
    /\ p_op = "none"
    /\ p_prev = "none"
    /\ p_ops = 0

(* main.c lines 52-54 and system.c line 24: the monitor's locals and the  *)
(* ping counter at the start of the main loop; last_inc_ms and polled_ms  *)
(* record when the counter was last incremented and when the monitor      *)
(* last ran, resets counts the hardware resets triggered; tick_end_ms is  *)
(* when the governor tick in progress ends, busy_until_ms when the        *)
(* command being dispatched returns to the main loop.                     *)
wd_boot == [now_ms |-> 0, ping |-> 0, last_ping_val |-> 0, last_ping_ms |-> 0,
            last_inc_ms |-> 0, polled_ms |-> 0, resets |-> 0,
            tick_end_ms |-> 0, busy_until_ms |-> 0]

no_call == [fn |-> "none"]

Cores == {"c0", "c1"}
Mutexes == {"metrics_lock", "kernel_lock", "log_mutex"}

(* both cores outside every operation that locks; metrics_init has run    *)
(* (rp_init or the first metrics_get_aggregate of core1_entry), nothing   *)
(* published yet                                                           *)
ConcIdle ==
    /\ todo = [c \in Cores |-> << >>]
    /\ mtx = [m \in Mutexes |-> "none"]
    /\ lockout = "free"
    /\ irq_off = FALSE
    /\ kernel_snap = 0
    /\ ks_out = 0
    /\ ks_ret = -1

AuxIdle ==
    /\ ConcIdle
    /\ wd = wd_boot
    /\ tick_until_ms = BOOT_MS + MaxElapsedMs
    /\ last_call = no_call
    /\ throttle_active = FALSE

Init == InitMain /\ FaIdle /\ RingIdle /\ PersistIdle /\ AuxIdle


(* ======================= ramp engine (system.c) ======================= *)

(* ramp_step, lines 135-155: candidate, find_achievable_khz, and the      *)
(* voltage raise of an up-step.  cur /= new here (the callers test it,    *)
(* and line 135 returns otherwise).  mv/hw are the recorded and the       *)
(* programmed voltage on entry.                                           *)
ramp_step_begin_no_raise(cur, new, mv, hw) ==
    LET stepping_up == cur < new
        candidate == IF stepping_up
                     THEN IF cur + RAMP_STEP_KHZ > new THEN new ELSE cur + RAMP_STEP_KHZ
                     ELSE IF cur - RAMP_STEP_KHZ < new THEN new ELSE cur - RAMP_STEP_KHZ
        next_khz == find_achievable_khz(Achievable, candidate, new)
    IN  [ rs  |-> [new_khz |-> new, next_khz |-> next_khz,
                   stepping_up |-> stepping_up, ok |-> FALSE,
                   from_khz |-> cur, from_mv |-> mv],
          mv  |-> mv,
          hw  |-> hw,
          log |-> << >> ]

ramp_step_begin(cur, new, mv, hw) ==
    LET stepping_up == cur < new
        candidate == IF stepping_up
                     THEN IF cur + RAMP_STEP_KHZ > new THEN new ELSE cur + RAMP_STEP_KHZ
                     ELSE IF cur - RAMP_STEP_KHZ < new THEN new ELSE cur - RAMP_STEP_KHZ
        next_khz == find_achievable_khz(Achievable, candidate, new)
    IN  [ rs  |-> [new_khz |-> new, next_khz |-> next_khz,
                   stepping_up |-> stepping_up, ok |-> FALSE,
                   from_khz |-> cur, from_mv |-> mv],
          mv  |-> IF stepping_up THEN vreg_for_khz(next_khz) ELSE mv,
          hw  |-> IF stepping_up THEN vreg_for_khz(next_khz) ELSE hw,
          log |-> IF stepping_up THEN << <<"vreg", next_khz>> >> ELSE << >> ]

(* set_sys_clock_khz(khz, false): refuses what the validator refuses and  *)
(* what this silicon cannot lock to (the "PLL edge" of ramp_step's        *)
(* failure branch).                                                       *)
set_sys_clock_khz(khz) == khz \in Achievable /\ khz < pll_edge_khz

(* multicore_lockout_start_blocking(): core 0 is a lockout victim         *)
(* (main.c:43) and is halted until the lockout ends.                      *)
(* core 0 between save_and_disable_interrupts and restore_interrupts,     *)
(* persist.c lines 62-65: it cannot take the lockout request of core 1   *)
FlashWritePcs == {"flash_erase", "flash_program"}

RsLockSkipped ==
    /\ pc1 = "lock"
    /\ pc1' = "pll"
    /\ UNCHANGED << shared_vars, hw_vars, cur_gov, gov_vars, flash_vars, mbuf,
                    now_ms, tick_gov, rs, rs_ret, ramp_log, lockout_held,
                    core0_vars, arbiter_vars, fa_vars, unit_vars, boot_inits, fail_vars >>

RsLock ==
    /\ pc1 = "lock"
    /\ pc0 \notin FlashWritePcs
    /\ lockout_held' = TRUE
    /\ pc1' = "pll"
    /\ UNCHANGED << shared_vars, hw_vars, cur_gov, gov_vars, flash_vars, mbuf,
                    now_ms, tick_gov, rs, rs_ret, ramp_log, core0_vars,
                    arbiter_vars, fa_vars, unit_vars, boot_inits, fail_vars >>

(* set_sys_clock_khz starts reprogramming the PLL ... *)
RsPllBegin ==
    /\ pc1 = "pll"
    /\ pc1' = "pll_busy"
    /\ UNCHANGED << shared_vars, hw_vars, cur_gov, gov_vars, flash_vars, mbuf,
                    now_ms, tick_gov, rs, rs_ret, ramp_log, lockout_held,
                    core0_vars, arbiter_vars, fa_vars, unit_vars, boot_inits, fail_vars >>

(* ... and returns. *)
RsPllEnd ==
    /\ pc1 = "pll_busy"
    /\ LET ok == set_sys_clock_khz(rs.next_khz)
       IN  /\ rs' = [rs EXCEPT !.ok = ok]
           /\ sys_clk_khz' = IF ok THEN rs.next_khz ELSE sys_clk_khz
           /\ ramp_log' = Append(ramp_log, <<"pll", rs.next_khz, ok>>)
    /\ pc1' = "unlock"
    /\ UNCHANGED << shared_vars, vreg_mv, pll_edge_khz, cur_gov, gov_vars,
                    flash_vars, mbuf, now_ms, tick_gov, rs_ret, lockout_held,
                    core0_vars, arbiter_vars, fa_vars, unit_vars, boot_inits, fail_vars >>

(* multicore_lockout_end_blocking() *)
RsUnlock ==
    /\ pc1 = "unlock"
    /\ lockout_held' = FALSE
    /\ pc1' = "post"
    /\ UNCHANGED << shared_vars, hw_vars, cur_gov, gov_vars, flash_vars, mbuf,
                    now_ms, tick_gov, rs, rs_ret, ramp_log, core0_vars,
                    arbiter_vars, fa_vars, unit_vars, boot_inits, fail_vars >>

(* ramp_step lines 165-186: the failure branch, or the voltage drop of a *)
(* down-step and the update of current_khz; rs_ret is the return value.   *)
RsPostNoClamp ==
    /\ pc1 = "post"
    /\ IF ~rs.ok
       THEN /\ rs_ret' = FALSE
            /\ fail_from' = current_khz
            /\ fail_at' = rs.next_khz
            /\ UNCHANGED << target_khz, current_khz, current_voltage_mv, vreg_mv,
                            ramp_log >>
       ELSE /\ IF ~rs.stepping_up
               THEN /\ current_voltage_mv' = vreg_for_khz(rs.next_khz)
                    /\ vreg_mv' = vreg_for_khz(rs.next_khz)
                    /\ ramp_log' = Append(ramp_log, <<"vreg", rs.next_khz>>)
               ELSE UNCHANGED << current_voltage_mv, vreg_mv, ramp_log >>
            /\ current_khz' = rs.next_khz
            /\ rs_ret' = (rs.next_khz = rs.new_khz)
            /\ fail_from' = 0
            /\ fail_at' = 0
            /\ UNCHANGED target_khz
    /\ pc1' = "ret"
    /\ UNCHANGED << sys_clk_khz, pll_edge_khz, cur_gov, gov_vars, flash_vars,
                    mbuf, now_ms, tick_gov, rs, lockout_held, core0_vars,
                    arbiter_vars, fa_vars, unit_vars, boot_inits >>

RsPost ==
    /\ pc1 = "post"
    /\ IF ~rs.ok
       THEN /\ target_khz' = current_khz
            /\ rs_ret' = TRUE
            /\ fail_from' = current_khz
            /\ fail_at' = rs.next_khz
            /\ UNCHANGED << current_khz, current_voltage_mv, vreg_mv, ramp_log >>
       ELSE /\ IF ~rs.stepping_up
               THEN /\ current_voltage_mv' = vreg_for_khz(rs.next_khz)
                    /\ vreg_mv' = vreg_for_khz(rs.next_khz)
                    /\ ramp_log' = Append(ramp_log, <<"vreg", rs.next_khz>>)
               ELSE UNCHANGED << current_voltage_mv, vreg_mv, ramp_log >>
            /\ current_khz' = rs.next_khz
            /\ rs_ret' = (rs.next_khz = rs.new_khz)
            /\ fail_from' = 0
            /\ fail_at' = 0
            /\ UNCHANGED target_khz
    /\ pc1' = "ret"
    /\ UNCHANGED << sys_clk_khz, pll_edge_khz, cur_gov, gov_vars, flash_vars,
                    mbuf, now_ms, tick_gov, rs, lockout_held, core0_vars,
                    arbiter_vars, fa_vars, unit_vars, boot_inits >>

(* back in g->tick after ramp_step: the tick's cooperative sleep; the     *)
(* ramp_step frame is gone.                                               *)
TickSleep ==
    /\ pc1 = "ret"
    /\ now_ms' = now_ms + tick_sleep_ms(tick_gov)
    /\ rs' = rs_idle
    /\ rs_ret' = FALSE
    /\ ramp_log' = << >>
    /\ pc1' = "loop"
    /\ UNCHANGED << shared_vars, hw_vars, cur_gov, gov_vars, flash_vars, mbuf,
                    tick_gov, lockout_held, core0_vars, arbiter_vars, fa_vars, unit_vars, boot_inits, fail_vars >>

(* ======================= metrics (metrics.c) ======================= *)

RECURSIVE SumField(_, _)
SumField(q, f) == IF q = << >> THEN 0 ELSE q[1][f] + SumField(Tail(q), f)

(* metrics_get_aggregate: count and the sums the averages are taken from  *)
(* (avg_x = sum_x / count; comparisons below are made on sum and count).  *)
metrics_get_aggregate(q) ==
    [ count   |-> Len(q),
      sum_int |-> SumField(q, "intensity"),
      sum_dur |-> SumField(q, "duration_ms") ]

(* ======================= governors ======================= *)

(* the "pre-warm VREG" ladder shared by the governors *)
prewarm_mv(khz, hw) ==
    IF khz > 250000 THEN MV_1_30
    ELSE IF khz > 200000 THEN MV_1_20
    ELSE hw

(* what a tick may change before it calls ramp_step *)
PolBase ==
    [ target  |-> target_khz,
      mv      |-> current_voltage_mv,
      hw      |-> vreg_mv,
      rp_adj  |-> rp_last_adjust_ms,
      rp_act  |-> rp_last_activity_ms,
      rp_idle |-> rp_in_idle_state,
      ond_bk  |-> ond_last_idle_backoff_us,
      sch_hi  |-> sch_last_high_util_us,
      sch_bk  |-> sch_last_idle_backoff_us ]

(* ---- performance ---- *)
perf_tick(agg, temp, now) ==
    IF target_khz /= MAX_KHZ
    THEN [PolBase EXCEPT !.hw = prewarm_mv(MAX_KHZ, vreg_mv), !.target = MAX_KHZ]
    ELSE PolBase

(* ---- ondemand ---- *)
ond_tick(agg, temp, now) ==
    LET now_us  == now * 1000
        is_idle == agg.count = 0 \/ agg.sum_int < 30 * agg.count
        up30    == IF target_khz < MAX_KHZ THEN target_khz + 30000 ELSE target_khz
        up20    == target_khz + 20000
        dn10    == target_khz - 10000
    IN  IF agg.count > 0 /\ agg.sum_int > 70 * agg.count
        THEN [PolBase EXCEPT !.hw = prewarm_mv(MAX_KHZ, vreg_mv),
                             !.target = IF up30 > MAX_KHZ THEN MAX_KHZ ELSE up30]
        ELSE IF ~is_idle /\ temp < 50 /\ target_khz < MAX_KHZ
        THEN [PolBase EXCEPT !.target = IF up20 > MAX_KHZ THEN MAX_KHZ ELSE up20]
        ELSE IF temp > 65 /\ target_khz > 125000
        THEN [PolBase EXCEPT !.target = IF dn10 < 125000 THEN 125000 ELSE dn10]
        ELSE IF /\ is_idle /\ temp < 48 /\ target_khz > 125000
                /\ now_us - ond_last_idle_backoff_us >= 500000
        THEN [PolBase EXCEPT !.target = IF dn10 < 125000 THEN 125000 ELSE dn10,
                             !.ond_bk = now_us]
        ELSE PolBase

(* ---- schedutil ---- *)
(* (target_khz - MIN_KHZ) * 100 / (MAX_KHZ - MIN_KHZ) in uint32_t: below   *)
(* MIN_KHZ the difference wraps; 2^32 - x is divided by 139000 = 8 * 17375 *)
(* as (2^29 - ceil(x / 8)) / 17375.                                        *)
current_target_percent(t) ==
    IF t >= MIN_KHZ
    THEN ((t - MIN_KHZ) * 100) \div (MAX_KHZ - MIN_KHZ)
    ELSE (536870912 - (((MIN_KHZ - t) * 100 + 7) \div 8)) \div ((MAX_KHZ - MIN_KHZ) \div 8)

(* (int)((temp - 32.0f) * 0.5f): truncation toward zero *)
temp_util(temp) ==
    IF temp >= 32 THEN (temp - 32) \div 2 ELSE 0 - ((32 - temp) \div 2)

(* sch_tick lines 31-46: the utilisation before and after clamping *)
sch_util0(agg, temp) ==
    IF agg.count > 0 THEN agg.sum_int \div agg.count ELSE temp_util(temp)

sch_util(agg, temp) ==
    LET util0 == sch_util0(agg, temp)
    IN  IF util0 < 0 THEN 0 ELSE IF util0 > 100 THEN 100 ELSE util0

sch_tick(agg, temp, now) ==
    LET now_us      == now * 1000
        has_metrics == agg.count > 0
        util0       == sch_util0(agg, temp)
        hi          == IF has_metrics /\ util0 > 50 THEN now_us ELSE sch_last_high_util_us
        util        == sch_util(agg, temp)
        t0          == MIN_KHZ + ((MAX_KHZ - MIN_KHZ) * util) \div 100
        target      == IF t0 > MAX_KHZ THEN MAX_KHZ ELSE IF t0 < MIN_KHZ THEN MIN_KHZ ELSE t0
        pct         == current_target_percent(target_khz)
        \* util < pct - 5 in uint32_t: pct - 5 wraps to a huge value when pct < 5
        change      == (target_khz /= target /\ util > pct + 5) \/ (pct < 5 \/ util < pct - 5)
        tk1         == IF change THEN target ELSE target_khz
        decay       == /\ ~has_metrics /\ util < 20 /\ temp < 48 /\ tk1 > MIN_KHZ
                       /\ now_us - hi > 2000000
                       /\ now_us - sch_last_idle_backoff_us >= 500000
        tk2         == IF decay
                       THEN IF tk1 - 10000 < MIN_KHZ THEN MIN_KHZ ELSE tk1 - 10000
                       ELSE tk1
    IN  [PolBase EXCEPT !.target = tk2,
                        !.sch_hi = hi,
                        !.sch_bk = IF decay THEN now_us ELSE @,
                        !.hw     = IF tk2 > current_khz THEN prewarm_mv(tk2, vreg_mv) ELSE @]

(* ---- rp2040_perf (adaptive) ---- *)
(* rp_tick lines 192-310: activity tracking and the choice of the target  *)
(* from the metrics or from inactivity                                    *)
rp_metrics_stage(agg, now) ==
    LET P        == rp_params
        samples  == agg.count
        act      == IF samples > 0 THEN now ELSE rp_last_activity_ms
        high     == \/ agg.sum_int >= 90 * samples
                    \/ /\ agg.sum_int >= P.thr_high_intensity * samples
                       /\ agg.sum_dur >= P.dur_high_ms * samples
        med      == /\ agg.sum_int >= P.thr_med_intensity * samples
                    /\ agg.sum_dur >= P.dur_med_ms * samples
        low      == /\ agg.sum_int <= P.thr_low_intensity * samples
                    /\ agg.sum_dur < P.dur_short_ms * samples
        modlow   == agg.sum_int <= 40 * samples
        \* lines 213-293: metrics present and cooldown_ms elapsed
        branchA  == samples > 0 /\ now - rp_last_adjust_ms > P.cooldown_ms
        exitIdle == branchA /\ rp_in_idle_state /\ high
        idle1    == IF exitIdle THEN FALSE ELSE rp_in_idle_state
        mv1      == IF exitIdle THEN prewarm_mv(MAX_KHZ, current_voltage_mv) ELSE current_voltage_mv
        hw1      == IF exitIdle THEN prewarm_mv(MAX_KHZ, vreg_mv) ELSE vreg_mv
        high_step == IF MAX_KHZ > 230000 THEN 230000 ELSE MAX_KHZ
        new_target == IF high THEN MAX_KHZ
                      ELSE IF med THEN high_step
                      ELSE IF low \/ modlow THEN P.idle_target_khz
                      ELSE target_khz
        is_ramp_up == (high \/ med) /\ new_target > target_khz
        should_be_idle == ~high /\ ~med /\ (low \/ modlow)
        effective_cooldown == IF is_ramp_up /\ ~idle1 THEN P.ramp_up_cooldown_ms
                              ELSE P.cooldown_ms
        acceptA  == /\ branchA /\ new_target /= target_khz
                    /\ now - rp_last_adjust_ms > effective_cooldown
        \* lines 294-310: no metrics, not idle
        branchB  == ~branchA /\ samples = 0 /\ ~rp_in_idle_state
        acceptB  == /\ branchB
                    /\ now - act >= P.idle_timeout_ms
                    /\ now - rp_last_adjust_ms > P.cooldown_ms
    IN  [ target |-> IF acceptA THEN new_target
                     ELSE IF acceptB THEN P.idle_target_khz ELSE target_khz,
          adj    |-> IF acceptA \/ acceptB THEN now ELSE rp_last_adjust_ms,
          idle   |-> IF (acceptA /\ should_be_idle) \/ acceptB THEN TRUE ELSE idle1,
          act    |-> act,
          mv     |-> mv1,
          hw     |-> hw1 ]

(* the thermal test made on the target the tick was entered with *)
rp_tick_backoff_on_entry(agg, temp, now) ==
    LET P        == rp_params
        M        == rp_metrics_stage(agg, now)
        backoff  == temp > P.temp_backoff_C /\ target_khz > P.backoff_target_khz
        restore  == ~backoff /\ temp < P.temp_restore_C /\ M.target < MAX_KHZ /\ ~M.idle
    IN  [PolBase EXCEPT
            !.target  = IF backoff THEN P.backoff_target_khz
                        ELSE IF restore THEN MAX_KHZ ELSE M.target,
            !.mv      = M.mv,
            !.hw      = M.hw,
            !.rp_adj  = IF backoff THEN now ELSE M.adj,
            !.rp_act  = M.act,
            !.rp_idle = IF backoff THEN FALSE ELSE M.idle ]

(* rp_tick up to its call of ramp_step: the metrics stage, then lines     *)
(* 312-325, thermal backoff and restore                                   *)
rp_tick(agg, temp, now) ==
    LET P        == rp_params
        M        == rp_metrics_stage(agg, now)
        backoff  == temp > P.temp_backoff_C /\ M.target > P.backoff_target_khz
        restore  == ~backoff /\ temp < P.temp_restore_C /\ M.target < MAX_KHZ /\ ~M.idle
    IN  [PolBase EXCEPT
            !.target  = IF backoff THEN P.backoff_target_khz
                        ELSE IF restore THEN MAX_KHZ ELSE M.target,
            !.mv      = M.mv,
            !.hw      = M.hw,
            !.rp_adj  = IF backoff THEN now ELSE M.adj,
            !.rp_act  = M.act,
            !.rp_idle = IF backoff THEN FALSE ELSE M.idle ]

tick(g, agg, temp, now) ==
    CASE g = "performance" -> perf_tick(agg, temp, now)
      [] g = "ondemand"    -> ond_tick(agg, temp, now)
      [] g = "schedutil"   -> sch_tick(agg, temp, now)
      [] g = "rp2040_perf" -> rp_tick(agg, temp, now)


(* ---- governor init functions ---- *)
(* g->init(): perf_init, ond_init, sch_init, rp_init.  rp_init loads the  *)
(* persisted tunables, pre-warms the voltage for MAX_KHZ and starts at    *)
(* the idle target.                                                       *)
GovInit(g) ==
    CASE g = "performance" ->
            /\ target_khz' = MIN_KHZ
            /\ UNCHANGED << current_voltage_mv, vreg_mv, gov_vars >>
      [] g = "ondemand" ->
            /\ ond_last_idle_backoff_us' = now_ms * 1000
            /\ target_khz' = MIN_KHZ
            /\ UNCHANGED << current_voltage_mv, vreg_mv, rp_params,
                            rp_last_adjust_ms, rp_last_activity_ms,
                            rp_in_idle_state, sch_last_high_util_us,
                            sch_last_idle_backoff_us >>
      [] g = "schedutil" ->
            /\ sch_last_high_util_us' = now_ms * 1000
            /\ sch_last_idle_backoff_us' = now_ms * 1000
            /\ target_khz' = MIN_KHZ
            /\ UNCHANGED << current_voltage_mv, vreg_mv, rp_params,
                            rp_last_adjust_ms, rp_last_activity_ms,
                            rp_in_idle_state, ond_last_idle_backoff_us >>
      [] g = "rp2040_perf" ->
            /\ rp_params' = IF flash_rp.valid THEN flash_rp.params ELSE rp_params
            /\ vreg_mv' = prewarm_mv(MAX_KHZ, vreg_mv)
            /\ current_voltage_mv' = prewarm_mv(MAX_KHZ, current_voltage_mv)
            /\ target_khz' = rp_params'.idle_target_khz
            /\ rp_last_activity_ms' = now_ms
            /\ rp_in_idle_state' = TRUE
            /\ UNCHANGED << rp_last_adjust_ms, ond_last_idle_backoff_us,
                            sch_last_high_util_us, sch_last_idle_backoff_us >>

(* ======================= kernel loop, core 1 (system.c) ================ *)

(* core1_entry before the loop: governors_init() picks the persisted      *)
(* governor if its record names a registered one, else rp2040_perf, and   *)
(* runs its init.                                                         *)
governors_init_select_default(saved_name) ==
    IF governors_find_by_name("rp2040_perf") /= NoGov
    THEN governors_find_by_name("rp2040_perf")
    ELSE registry[1]

(* governors_init lines 25-38: the governor chosen for `current` when the *)
(* loaded record holds saved_name (NoRec when persist_load fails)         *)
governors_init_select(saved_name) ==
    LET saved == IF saved_name = NoRec THEN NoGov
                 ELSE governors_find_by_name(saved_name)
    IN  IF saved /= NoGov THEN saved
        ELSE IF governors_find_by_name("rp2040_perf") /= NoGov
        THEN governors_find_by_name("rp2040_perf")
        ELSE registry[1]

Core1Boot ==
    /\ pc1 = "boot"
    /\ LET g == governors_init_select(flash_name)
       IN  /\ cur_gov' = g
           /\ GovInit(g)
           /\ boot_inits' = Append(boot_inits, g)
    /\ pc1' = "loop"
    /\ UNCHANGED << current_khz, sys_clk_khz, pll_edge_khz, flash_vars, mbuf,
                    now_ms, tick_gov, rs, rs_ret, ramp_log, lockout_held,
                    core0_vars, arbiter_vars, fa_vars, unit_vars, fail_vars >>

(* One iteration of the loop up to the PLL lockout: consume the metrics,  *)
(* run g->tick (policy, then ramp_step when target_khz /= current_khz).   *)
(* A tick without a ramp step ends with its sleep.                        *)
Tick ==
    /\ pc1 = "loop"
    /\ cur_gov \in GovNames
    /\ now_ms < tick_until_ms
    /\ \E temp \in TempSet :
         LET agg == metrics_get_aggregate(mbuf)
             P   == tick(cur_gov, agg, temp, now_ms)
             B   == ramp_step_begin(current_khz, P.target, P.mv, P.hw)
         IN  /\ target_khz' = P.target
             /\ rp_last_adjust_ms' = P.rp_adj
             /\ rp_last_activity_ms' = P.rp_act
             /\ rp_in_idle_state' = P.rp_idle
             /\ ond_last_idle_backoff_us' = P.ond_bk
             /\ sch_last_high_util_us' = P.sch_hi
             /\ sch_last_idle_backoff_us' = P.sch_bk
             /\ IF P.target /= current_khz
                THEN /\ rs' = B.rs
                     /\ current_voltage_mv' = B.mv
                     /\ vreg_mv' = B.hw
                     /\ ramp_log' = B.log
                     /\ pc1' = "lock"
                     /\ UNCHANGED now_ms
                ELSE /\ current_voltage_mv' = P.mv
                     /\ vreg_mv' = P.hw
                     /\ now_ms' = now_ms + tick_sleep_ms(cur_gov)
                     /\ pc1' = "loop"
                     /\ UNCHANGED << rs, ramp_log >>
    /\ tick_gov' = cur_gov
    /\ mbuf' = << >>
    /\ UNCHANGED << current_khz, sys_clk_khz, pll_edge_khz, cur_gov, rp_params,
                    flash_vars, rs_ret, lockout_held, core0_vars,
                    arbiter_vars, fa_vars, unit_vars, boot_inits, fail_vars >>


(* ======================= shell, core 0 ======================= *)
(* Core 0 executes nothing while core 1 holds the lockout.                *)
Core0Runs == ~lockout_held

(* cmd_set: khz = mhz * 1000 in uint32_t, i.e. modulo 2^32               *)
(* (= 8 * ((mhz * 125) mod 2^29)).                                        *)
cmd_set_khz(mhz) == 8 * ((mhz * 125) % 536870912)

CmdSet(mhz) ==
    /\ Core0Runs /\ pc0 = "shell"
    /\ ops_left > 0
    /\ ops_left' = ops_left - 1
    /\ LET khz == cmd_set_khz(mhz)
       IN  IF khz < MIN_KHZ \/ khz > MAX_KHZ
           THEN UNCHANGED << target_khz, fail_vars >>
           ELSE /\ target_khz' = khz
                /\ fail_from' = 0
                /\ fail_at' = 0
    /\ UNCHANGED << current_khz, current_voltage_mv, hw_vars, cur_gov, gov_vars,
                    flash_vars, mbuf, now_ms, core1_vars, pc0, pend_gov,
                    arbiter_vars, fa_vars, unit_vars, boot_inits, sector_ram >>

(* cmd_gov set <name> -> governors_set_current(g): first `current = g` ... *)
CmdGovSet(name) ==
    /\ Core0Runs /\ pc0 = "shell"
    /\ pc1 /= "boot"
    /\ ops_left > 0
    /\ ops_left' = ops_left - 1
    /\ governors_find_by_name(name) /= NoGov
    /\ cur_gov' = governors_find_by_name(name)
    /\ pend_gov' = governors_find_by_name(name)
    /\ pc0' = "gov_init"
    /\ fail_from' = 0
    /\ fail_at' = 0
    /\ UNCHANGED << shared_vars, hw_vars, gov_vars, flash_vars, mbuf, now_ms,
                    core1_vars, arbiter_vars, fa_vars, unit_vars, boot_inits, sector_ram >>

(* ... then current->init() and persist_save(current->name).             *)
CmdGovInit ==
    /\ Core0Runs /\ pc0 = "gov_init"
    /\ GovInit(pend_gov)
    /\ flash_name' = pend_gov
    /\ pc0' = "shell"
    /\ pend_gov' = NoGov
    /\ UNCHANGED << current_khz, sys_clk_khz, pll_edge_khz, cur_gov, flash_rp,
                    mbuf, now_ms, core1_vars, ops_left, arbiter_vars, fa_vars, unit_vars, boot_inits, sector_ram, fail_vars >>

(* rp2040_perf_set_param: 0 = ok, -1 = unknown name, -2 = invalid value  *)
rp2040_perf_set_param_rc(name, val) ==
    CASE name = "ramp_up_cooldown_ms" -> IF val < 100 \/ val > 5000 THEN -2 ELSE 0
      [] name = "backoff_target_khz"  -> IF val < MIN_KHZ \/ val > MAX_KHZ THEN -2 ELSE 0
      [] name = "idle_target_khz"     -> IF val < MIN_KHZ \/ val > MAX_KHZ THEN -2 ELSE 0
      [] name = "idle_timeout_ms"     -> IF val < 1000 \/ val > 60000 THEN -2 ELSE 0
      [] name \in DOMAIN rp_params_default -> 0
      [] OTHER -> -1

(* alloc_ok: malloc of the sector copy in persist_save_rp_params          *)
(* succeeds; its return value is not looked at (line 82).                 *)
TuneSet(name, val, alloc_ok) ==
    /\ Core0Runs /\ pc0 = "shell"
    /\ ops_left > 0
    /\ ops_left' = ops_left - 1
    /\ IF rp2040_perf_set_param_rc(name, val) = 0
       THEN /\ rp_params' = [rp_params EXCEPT ![name] = val]
            /\ flash_rp' = IF alloc_ok THEN [valid |-> TRUE, params |-> rp_params']
                           ELSE flash_rp
            /\ fail_from' = 0
            /\ fail_at' = 0
       ELSE UNCHANGED << rp_params, flash_rp, fail_vars >>
    /\ UNCHANGED << shared_vars, hw_vars, cur_gov, rp_last_adjust_ms,
                    rp_last_activity_ms, rp_in_idle_state,
                    ond_last_idle_backoff_us, sch_last_high_util_us,
                    sch_last_idle_backoff_us, flash_name, mbuf, now_ms,
                    core1_vars, pc0, pend_gov, arbiter_vars, fa_vars, unit_vars, boot_inits, sector_ram >>

(* metrics_submit from application / benchmark code on core 0 *)
MetricsSubmit(intensity, duration_ms) ==
    /\ Core0Runs /\ pc0 = "shell"
    /\ ops_left > 0
    /\ ops_left' = ops_left - 1
    /\ LET r == [intensity |-> intensity, duration_ms |-> duration_ms]
       IN  mbuf' = IF Len(mbuf) < METRICS_BUF_SZ THEN Append(mbuf, r)
                   ELSE Append(Tail(mbuf), r)
    /\ fail_from' = 0
    /\ fail_at' = 0
    /\ UNCHANGED << shared_vars, hw_vars, cur_gov, gov_vars, flash_vars, now_ms,
                    core1_vars, pc0, pend_gov, arbiter_vars, fa_vars, unit_vars, boot_inits, sector_ram >>

(* ======================= stability arbiter ======================= *)
MIN_STABLE == 4

(* pio_idle_safe_to_scale(0.03, 3.0, 4) *)
pio_idle_safe_to_scale == jitter_ok /\ stable_count >= MIN_STABLE

(* pio_idle_poll in the main loop: a new heartbeat period whose jitter is *)
(* within the threshold (ok) or not.                                      *)
PioPoll(ok) ==
    /\ Core0Runs /\ pc0 = "shell"
    /\ jitter_ok' = ok
    /\ stable_count' = IF ok
                       THEN IF stable_count < MIN_STABLE THEN stable_count + 1
                            ELSE stable_count
                       ELSE 0
    /\ UNCHANGED << shared_vars, hw_vars, cur_gov, gov_vars, flash_vars, mbuf,
                    now_ms, core1_vars, core0_vars, notified_khz, fa_vars, unit_vars, boot_inits, fail_vars >>

(* pio_idle_notify_freq_change(new_khz) *)
pio_idle_notify_freq_change(new_khz) ==
    /\ notified_khz' = new_khz
    /\ stable_count' = 0
    /\ jitter_ok' = FALSE

(* cmd_pio reset: the only caller of pio_idle_notify_freq_change *)
CmdPioReset ==
    /\ Core0Runs /\ pc0 = "shell"
    /\ ops_left > 0
    /\ ops_left' = ops_left - 1
    /\ pio_idle_notify_freq_change(current_khz)
    /\ UNCHANGED << shared_vars, hw_vars, cur_gov, gov_vars, flash_vars, mbuf,
                    now_ms, core1_vars, pc0, pend_gov, fa_vars, unit_vars, boot_inits, sector_ram, fail_vars >>

(* ======================= specification ======================= *)
Core1Step ==
    Core1Boot \/ Tick \/ RsLock \/ RsPllBegin \/ RsPllEnd \/ RsUnlock \/ RsPost \/ TickSleep

Core0Step ==
    \/ \E mhz \in SetMhzSet : CmdSet(mhz)
    \/ \E name \in GovNames : CmdGovSet(name)
    \/ CmdGovInit
    \/ \E t \in TuneInputs : \E alloc_ok \in BOOLEAN : TuneSet(t[1], t[2], alloc_ok)
    \/ \E m \in SampleSet : MetricsSubmit(m[1], m[2])

ArbiterStep ==
    \/ \E ok \in BOOLEAN : PioPoll(ok)
    \/ CmdPioReset

Next == Core1Step \/ Core0Step

Spec == Init /\ [][Next]_vars

(* ======================= flash write against core 1 ==================== *)
(* governors_set_current with its persist_save taken step by step: the    *)
(* governor's init and the RAM copy of the sector (persist.c lines 44-60), *)
(* then flash_range_erase, then flash_range_program, while core 1 runs    *)
(* its loop.                                                              *)
CmdGovInitSave ==
    /\ Core0Runs /\ pc0 = "gov_init"
    /\ GovInit(pend_gov)
    /\ sector_ram' = [name |-> pend_gov, rp_valid |-> flash_rp.valid]
    /\ pc0' = "flash_erase"
    /\ pend_gov' = NoGov
    /\ UNCHANGED << current_khz, sys_clk_khz, pll_edge_khz, cur_gov, flash_vars,
                    mbuf, now_ms, core1_vars, ops_left, arbiter_vars, fa_vars,
                    unit_vars, boot_inits, fail_vars >>

FlashErase ==
    /\ pc0 = "flash_erase"
    /\ flash_name' = NoRec
    /\ flash_rp' = [flash_rp EXCEPT !.valid = FALSE]
    /\ pc0' = "flash_program"
    /\ UNCHANGED << shared_vars, hw_vars, cur_gov, gov_vars, mbuf, now_ms,
                    core1_vars, pend_gov, ops_left, sector_ram, arbiter_vars,
                    fa_vars, unit_vars, boot_inits, fail_vars >>

FlashProgram ==
    /\ pc0 = "flash_program"
    /\ flash_name' = sector_ram.name
    /\ flash_rp' = [flash_rp EXCEPT !.valid = sector_ram.rp_valid]
    /\ sector_ram' = NoSector
    /\ pc0' = "shell"
    /\ UNCHANGED << shared_vars, hw_vars, cur_gov, gov_vars, mbuf, now_ms,
                    core1_vars, pend_gov, ops_left, arbiter_vars, fa_vars,
                    unit_vars, boot_inits, fail_vars >>

NextFlash ==
    \/ Core1Step
    \/ \E name \in GovNames : CmdGovSet(name)
    \/ CmdGovInitSave
    \/ FlashErase
    \/ FlashProgram

SpecFlash == Init /\ [][NextFlash]_vars

(* ======================= cold start ==================================== *)
(* core 1 from reset with every kind of persisted record: none, each      *)
(* registered name, and a name that is not registered.                    *)
BootFlashNames == {NoRec, "bogus"} \cup GovNames

InitBoot == InitMainFrom(BootFlashNames) /\ FaIdle /\ RingIdle /\ PersistIdle /\ AuxIdle

SpecBoot == InitBoot /\ [][Core1Step]_vars

(* ======================= liveness monitor (main.c) ===================== *)
(* The idle iterations of the main loop, lines 75-96, against the ping    *)
(* counter that the governor ticks increment.  Time moves in steps of     *)
(* WdStepMs; the idle loop runs every 100 us, so the monitor has run at   *)
(* each instant before time moves on.  Core 1 may stop incrementing at    *)
(* any time.                                                              *)
prog_vars == << shared_vars, hw_vars, cur_gov, gov_vars, flash_vars, mbuf,
                now_ms, core1_vars, core0_vars, arbiter_vars, fa_vars,
                fail_vars, boot_inits, ring_vars, persist_vars >>

(* core1_wdt_ping++ in a governor tick; further increments at the same    *)
(* instant do not change what the monitor sees                            *)
WdPing ==
    /\ wd.last_inc_ms /= wd.now_ms \/ wd.ping = 0
    /\ wd' = [wd EXCEPT !.ping = @ + 1, !.last_inc_ms = wd.now_ms]
    /\ UNCHANGED << prog_vars, tick_until_ms, last_call, throttle_active, conc_vars >>

(* lines 85-94 *)
wd_poll(w) ==
    IF w.now_ms - w.last_ping_ms >= WD_PERIOD_MS
    THEN IF w.ping = w.last_ping_val
         THEN [wd_boot EXCEPT !.resets = w.resets + 1]
         ELSE [w EXCEPT !.last_ping_val = w.ping, !.last_ping_ms = w.now_ms,
                        !.polled_ms = w.now_ms]
    ELSE [w EXCEPT !.polled_ms = w.now_ms]

WdPoll ==
    /\ wd.polled_ms /= wd.now_ms
    /\ wd_poll(wd).resets <= MaxWdResets
    /\ wd' = wd_poll(wd)
    /\ UNCHANGED << prog_vars, tick_until_ms, last_call, throttle_active, conc_vars >>

WdTime ==
    /\ wd.polled_ms = wd.now_ms
    /\ wd.now_ms < MaxWdMs
    /\ wd' = [wd EXCEPT !.now_ms = @ + WdStepMs]
    /\ UNCHANGED << prog_vars, tick_until_ms, last_call, throttle_active, conc_vars >>

NextWdt == WdPing \/ WdPoll \/ WdTime

InitWdt == Init /\ pll_edge_khz = MAX_KHZ + 1

SpecWdt == InitWdt /\ [][NextWdt]_vars

(* ======================= liveness monitor against a ticking core 1 ===== *)
(* Core 1 runs tick after tick of the current governor: each tick         *)
(* increments core1_wdt_ping on entry and lasts its sleep (ramp_step does *)
(* not sleep).  The main loop runs the monitor on every idle iteration    *)
(* (main.c:75-96) and not while dispatch() runs a command.                *)

MonCmdMs == {0, 6000}
MonCmdAtMs == {1000, 4000, 7000}

(* entry of g->tick without the increment of core1_wdt_ping *)
MonPingSilent ==
    /\ cur_gov \in GovNames
    /\ wd.now_ms = wd.tick_end_ms
    /\ wd.now_ms < MaxWdMs
    /\ wd' = [wd EXCEPT !.tick_end_ms = wd.now_ms + tick_sleep_ms(cur_gov)]
    /\ UNCHANGED << prog_vars, tick_until_ms, last_call, throttle_active, conc_vars >>

(* entry of g->tick: core1_wdt_ping++ (governors_performance.c:21,        *)
(* governors_ondemand.c:24, governors_schedutil.c:26,                     *)
(* governors_rp2040_perf.c:192); the tick returns after its sleep        *)
MonPing ==
    /\ cur_gov \in GovNames
    /\ wd.now_ms = wd.tick_end_ms
    /\ wd.now_ms < MaxWdMs
    /\ wd' = [wd EXCEPT !.ping = @ + 1, !.last_inc_ms = wd.now_ms,
                        !.tick_end_ms = wd.now_ms + tick_sleep_ms(cur_gov)]
    /\ UNCHANGED << prog_vars, tick_until_ms, last_call, throttle_active, conc_vars >>

(* an idle iteration of the main loop, main.c:78-94 *)
MonPoll ==
    /\ wd.now_ms >= wd.busy_until_ms
    /\ wd.polled_ms /= wd.now_ms
    /\ wd_poll(wd).resets <= MaxWdResets
    /\ wd' = wd_poll(wd)
    /\ UNCHANGED << prog_vars, tick_until_ms, last_call, throttle_active, conc_vars >>

(* Time passes up to the next event: the end of the tick, the return of   *)
(* the command, the end of the monitor's window, the next instant at      *)
(* which a command is typed.  The idle main loop has run the monitor      *)
(* before time moves on.                                                  *)
MonTime ==
    /\ wd.now_ms < wd.tick_end_ms
    /\ wd.polled_ms = wd.now_ms \/ wd.now_ms < wd.busy_until_ms
    /\ LET events == { t \in MonCmdAtMs \cup {wd.tick_end_ms, wd.busy_until_ms,
                                               wd.last_ping_ms + WD_PERIOD_MS} :
                         t > wd.now_ms }
       IN  wd' = [wd EXCEPT !.now_ms = CHOOSE t \in events : \A u \in events : t <= u]
    /\ UNCHANGED << prog_vars, tick_until_ms, last_call, throttle_active, conc_vars >>

(* dispatch() of a command: it keeps the main loop for dur ms and leaves  *)
(* g as the current governor (gov set, commands.c:271-279; g = cur_gov    *)
(* for every other command)                                               *)
MonCmd(g, dur) ==
    /\ cur_gov \in GovNames
    /\ ops_left > 0
    /\ wd.now_ms >= wd.busy_until_ms
    /\ wd.now_ms \in MonCmdAtMs
    /\ (g = cur_gov) = (dur > 0)
    /\ cur_gov' = g
    /\ ops_left' = ops_left - 1
    /\ wd' = [wd EXCEPT !.busy_until_ms = wd.now_ms + dur]
    /\ UNCHANGED << shared_vars, hw_vars, gov_vars, flash_vars, mbuf, now_ms,
                    core1_vars, fail_vars, pc0, pend_gov, sector_ram,
                    arbiter_vars, fa_vars, boot_inits, ring_vars, persist_vars,
                    tick_until_ms, last_call, throttle_active, conc_vars >>

NextMon ==
    \/ Core1Boot
    \/ MonPing
    \/ MonPoll
    \/ MonTime
    \/ \E g \in GovNames : \E dur \in MonCmdMs : MonCmd(g, dur)

InitMon == InitBoot /\ pll_edge_khz = MAX_KHZ + 1

SpecMon == InitMon /\ [][NextMon]_vars

(* ======================= performance governor from reset =============== *)
(* Started with a record that names the performance governor, every PLL   *)
(* setting succeeding, followed for MaxPerfMs while the shell sets        *)
(* targets.                                                               *)
InitPerf ==
    /\ InitMainFrom({"performance"})
    /\ pll_edge_khz = MAX_KHZ + 1
    /\ FaIdle /\ RingIdle /\ PersistIdle /\ ConcIdle
    /\ wd = wd_boot
    /\ last_call = no_call
    /\ throttle_active = FALSE
    /\ tick_until_ms = BOOT_MS + MaxPerfMs

NextPerf == Core1Step \/ (\E mhz \in SetMhzSet : CmdSet(mhz))

SpecPerf == InitPerf /\ [][NextPerf]_vars

(* ======================= schedutil target selection ==================== *)
(* sch_tick up to its call of ramp_step (the ramp is followed in Spec):   *)
(* the utilisation comes from one consumed sample of intensity 0..100 or, *)
(* without metrics, from the temperature.  The targets a tick starts     *)
(* from are MIN_KHZ (sch_init) and every target an earlier tick chose.    *)
SchUtilSet == 0..100

SchInputSet ==
    { << [count |-> 1, sum_int |-> u, sum_dur |-> 0], 40 >> : u \in SchUtilSet } \cup
    { << [count |-> 0, sum_int |-> 0, sum_dur |-> 0], t >> : t \in TempSet }

SchTickTarget(agg, temp) ==
    /\ pc1 = "loop"
    /\ cur_gov = "schedutil"
    /\ LET P == sch_tick(agg, temp, now_ms)
       IN  /\ target_khz' = P.target
           /\ sch_last_high_util_us' = P.sch_hi
           /\ sch_last_idle_backoff_us' = P.sch_bk
           /\ vreg_mv' = P.hw
    /\ last_call' = [fn |-> "sch_tick", util |-> sch_util(agg, temp),
                     from_khz |-> target_khz]
    /\ UNCHANGED << current_khz, current_voltage_mv, sys_clk_khz, pll_edge_khz,
                    cur_gov, rp_params, rp_last_adjust_ms, rp_last_activity_ms,
                    rp_in_idle_state, ond_last_idle_backoff_us, flash_vars,
                    mbuf, now_ms, core1_vars, core0_vars, arbiter_vars,
                    fa_vars, fail_vars, boot_inits, ring_vars, persist_vars,
                    wd, tick_until_ms, throttle_active, conc_vars >>

InitSch ==
    /\ InitMainFrom({"schedutil"})
    /\ pll_edge_khz = MAX_KHZ + 1
    /\ FaIdle /\ RingIdle /\ PersistIdle /\ AuxIdle

NextSch ==
    \/ Core1Boot
    \/ \E in \in SchInputSet : SchTickTarget(in[1], in[2])

SpecSch == InitSch /\ [][NextSch]_vars

(* ======================= adaptive governor target selection ============ *)
(* rp_tick up to its call of ramp_step (the ramp is followed in Spec),    *)
(* with its sleep, under the default tunables: metrics of every class,    *)
(* temperatures below temp_restore_C, between the two thresholds and      *)
(* above temp_backoff_C, and targets set from the shell in between.       *)
RpAggSet ==
    { [count |-> 0, sum_int |-> 0,  sum_dur |-> 0],
      [count |-> 1, sum_int |-> 95, sum_dur |-> 600],
      [count |-> 1, sum_int |-> 65, sum_dur |-> 300],
      [count |-> 1, sum_int |-> 50, sum_dur |-> 100],
      [count |-> 1, sum_int |-> 10, sum_dur |-> 100] }

RpTempSet == {40, 68, 75}

RpSetMhzSet == {250}

RpTickTarget(agg, temp) ==
    /\ pc1 = "loop"
    /\ cur_gov = "rp2040_perf"
    /\ now_ms < tick_until_ms
    /\ LET P == rp_tick(agg, temp, now_ms)
       IN  /\ target_khz' = P.target
           /\ rp_last_adjust_ms' = P.rp_adj
           /\ rp_last_activity_ms' = P.rp_act
           /\ rp_in_idle_state' = P.rp_idle
           /\ current_voltage_mv' = P.mv
           /\ vreg_mv' = P.hw
    /\ last_call' = [fn |-> "rp_tick", temp |-> temp, from_khz |-> target_khz,
                     from_idle |-> rp_in_idle_state,
                     to_khz |-> rp_tick(agg, temp, now_ms).target,
                     to_idle |-> rp_tick(agg, temp, now_ms).rp_idle,
                     cooling |-> (now_ms - rp_last_adjust_ms <= rp_params.cooldown_ms),
                     agg |-> agg, elapsed |-> now_ms - rp_last_adjust_ms,
                     params |-> rp_params,
                     metrics |-> rp_metrics_stage(agg, now_ms)]
    /\ now_ms' = now_ms + tick_sleep_ms("rp2040_perf")
    /\ UNCHANGED << current_khz, sys_clk_khz, pll_edge_khz, cur_gov, rp_params,
                    ond_last_idle_backoff_us, sch_last_high_util_us,
                    sch_last_idle_backoff_us, flash_vars, mbuf, core1_vars,
                    core0_vars, arbiter_vars, fa_vars, fail_vars, boot_inits,
                    ring_vars, persist_vars, wd, tick_until_ms, throttle_active, conc_vars >>

InitRp ==
    /\ InitMainFrom({NoRec})
    /\ pll_edge_khz = MAX_KHZ + 1
    /\ FaIdle /\ RingIdle /\ PersistIdle /\ AuxIdle

NextRp ==
    \/ Core1Boot
    \/ \E agg \in RpAggSet, temp \in RpTempSet : RpTickTarget(agg, temp)
    \/ \E mhz \in RpSetMhzSet : CmdSet(mhz)

SpecRp == InitRp /\ [][NextRp]_vars

(* the same ticks with ramp_up_cooldown_ms set from the shell to the      *)
(* smallest value rp2040_perf_set_param accepts, or cooldown_ms (which is *)
(* not range-checked) to the same value                                   *)
RAMP_UP_COOLDOWN_MIN == 100

CoolTuneSet == { <<"ramp_up_cooldown_ms", RAMP_UP_COOLDOWN_MIN>>,
                 <<"cooldown_ms", RAMP_UP_COOLDOWN_MIN>> }

NextCool ==
    \/ NextRp
    \/ \E t \in CoolTuneSet : \E alloc_ok \in BOOLEAN : TuneSet(t[1], t[2], alloc_ok)

SpecCool == InitRp /\ [][NextCool]_vars

(* ======================= tunables from the shell ======================= *)
(* tune set <name> <value> for checked and unchecked names, values inside *)
(* and outside the ranges, and an unknown name.                           *)
TuneNameSet == {"cooldown_ms", "ramp_up_cooldown_ms", "backoff_target_khz",
                "idle_target_khz", "idle_timeout_ms", "nosuch"}

TuneValSet == {99, 100, 5000, 60001, MIN_KHZ, MAX_KHZ, MAX_KHZ + 1}

NextTune ==
    \/ Core1Boot
    \/ \E name \in TuneNameSet, val \in TuneValSet, alloc_ok \in BOOLEAN :
           TuneSet(name, val, alloc_ok)

SpecTune == InitRp /\ [][NextTune]_vars

(* ======================= ondemand target selection ===================== *)
(* ond_tick up to its call of ramp_step (the ramp is followed in Spec),   *)
(* with its sleep: no metrics, low, moderate and high intensity, at       *)
(* temperatures on each side of the governor's 48, 50 and 65 degree       *)
(* thresholds; the shell may set targets in between.                      *)
OndAggSet ==
    { [count |-> 0, sum_int |-> 0,  sum_dur |-> 0],
      [count |-> 1, sum_int |-> 10, sum_dur |-> 100],
      [count |-> 1, sum_int |-> 50, sum_dur |-> 100],
      [count |-> 1, sum_int |-> 95, sum_dur |-> 100] }

OndTempSet == {40, 49, 60, 75}

OndTickTarget(agg, temp) ==
    /\ pc1 = "loop"
    /\ cur_gov = "ondemand"
    /\ now_ms < tick_until_ms
    /\ LET P == ond_tick(agg, temp, now_ms)
       IN  /\ target_khz' = P.target
           /\ ond_last_idle_backoff_us' = P.ond_bk
           /\ vreg_mv' = P.hw
           /\ last_call' = [fn |-> "ond_tick", agg |-> agg, temp |-> temp,
                            from_khz |-> target_khz, to_khz |-> P.target]
    /\ now_ms' = now_ms + tick_sleep_ms("ondemand")
    /\ UNCHANGED << current_khz, current_voltage_mv, sys_clk_khz, pll_edge_khz,
                    cur_gov, rp_params, rp_last_adjust_ms, rp_last_activity_ms,
                    rp_in_idle_state, sch_last_high_util_us,
                    sch_last_idle_backoff_us, flash_vars, mbuf, core1_vars,
                    core0_vars, arbiter_vars, fa_vars, fail_vars, boot_inits,
                    ring_vars, persist_vars, wd, tick_until_ms, throttle_active, conc_vars >>

InitOnd ==
    /\ InitMainFrom({"ondemand"})
    /\ pll_edge_khz = MAX_KHZ + 1
    /\ FaIdle /\ RingIdle /\ PersistIdle /\ AuxIdle

NextOnd ==
    \/ Core1Boot
    \/ \E agg \in OndAggSet, temp \in OndTempSet : OndTickTarget(agg, temp)
    \/ \E mhz \in SetMhzSet : CmdSet(mhz)

SpecOnd == InitOnd /\ [][NextOnd]_vars


(* ---- ondemand under a benchmark: the whole tick with its ramp step ---- *)
(* The benchmarks (benchmark.c, e.g. measure_cpu) run on core 0 from the  *)
(* shell and submit one sample of their measured intensity about every    *)
(* 100 ms, i.e. at most one between two ticks of the governor.            *)
BenchIntensity == {95}

BenchWindowMs == 5 * MaxElapsedMs

BenchSubmit(intensity) ==
    /\ Core0Runs /\ pc0 = "shell"
    /\ pc1 = "loop"
    /\ mbuf = << >>
    /\ mbuf' = << [intensity |-> intensity, duration_ms |-> 100] >>
    /\ UNCHANGED << shared_vars, hw_vars, cur_gov, gov_vars, flash_vars, now_ms,
                    core1_vars, core0_vars, arbiter_vars, fa_vars, unit_vars,
                    boot_inits, fail_vars >>

InitBench ==
    /\ InitMainFrom({"ondemand"})
    /\ pll_edge_khz = MAX_KHZ + 1
    /\ FaIdle /\ RingIdle /\ PersistIdle /\ ConcIdle
    /\ wd = wd_boot
    /\ tick_until_ms = BOOT_MS + BenchWindowMs
    /\ last_call = no_call
    /\ throttle_active = FALSE

NextBench ==
    \/ Core1Step
    \/ \E intensity \in BenchIntensity : BenchSubmit(intensity)
    \/ \E mhz \in SetMhzSet : CmdSet(mhz)

SpecBench == InitBench /\ [][NextBench]_vars

(* ======================= ramp_to (system.c) ============================ *)
(* ramp_to is called from core 1's loop position; ramp_step runs through  *)
(* the steps of the ramp engine above.  last_call follows the call: the   *)
(* argument, the clamped argument, the ramp_step calls made, core1_wdt_ping *)
(* on entry, whether it has returned and whether the last step failed.    *)

RampToSet == {100000, MIN_KHZ, 150000, 200000, MAX_KHZ, 300000}

(* lines 204-206 *)
ramp_to_clamp(new_khz) ==
    IF new_khz < MIN_KHZ THEN MIN_KHZ ELSE IF new_khz > MAX_KHZ THEN MAX_KHZ ELSE new_khz

ramp_to_rest == << target_khz, current_khz, sys_clk_khz, pll_edge_khz, cur_gov, gov_vars,
                   flash_vars, mbuf, tick_gov, lockout_held, core0_vars,
                   arbiter_vars, fa_vars, boot_inits, fail_vars, ring_vars,
                   persist_vars, tick_until_ms, throttle_active, conc_vars >>

(* lines 201-212: the early return, the clamp, the first ramp_step (which *)
(* returns true at once when the clamped target is where the clock is;    *)
(* then lines 218-219 follow directly)                                    *)
RampToCall(new_khz) ==
    /\ pc1 = "loop"
    /\ now_ms < tick_until_ms
    /\ LET n == ramp_to_clamp(new_khz)
           B == ramp_step_begin(current_khz, n, current_voltage_mv, vreg_mv)
           call == [fn |-> "ramp_to", new_khz |-> new_khz, clamped |-> n,
                    from_khz |-> current_khz, ping0 |-> wd.ping,
                    calls |-> 0, done |-> TRUE, failed |-> FALSE]
       IN  IF current_khz = new_khz
           THEN /\ last_call' = call
                /\ UNCHANGED << wd, now_ms, rs, rs_ret, current_voltage_mv, vreg_mv,
                                ramp_log, pc1 >>
           ELSE IF current_khz = n
           THEN /\ last_call' = [call EXCEPT !.calls = 1]
                /\ wd' = [wd EXCEPT !.ping = @ + 1]
                /\ now_ms' = now_ms + RAMP_DELAY_MS
                /\ UNCHANGED << rs, rs_ret, current_voltage_mv, vreg_mv, ramp_log, pc1 >>
           ELSE /\ last_call' = [call EXCEPT !.calls = 1, !.done = FALSE]
                /\ rs' = B.rs
                /\ current_voltage_mv' = B.mv
                /\ vreg_mv' = B.hw
                /\ ramp_log' = B.log
                /\ pc1' = "lock"
                /\ UNCHANGED << wd, now_ms, rs_ret >>
    /\ UNCHANGED ramp_to_rest

(* lines 212-215 without the increment of core1_wdt_ping *)
RampToLoopNoPing ==
    /\ pc1 = "ret" /\ last_call.fn = "ramp_to" /\ ~rs_ret
    /\ LET B == ramp_step_begin(current_khz, last_call.clamped, current_voltage_mv, vreg_mv)
       IN  /\ rs' = B.rs
           /\ current_voltage_mv' = B.mv
           /\ vreg_mv' = B.hw
           /\ ramp_log' = B.log
    /\ UNCHANGED wd
    /\ now_ms' = now_ms + RAMP_DELAY_MS
    /\ last_call' = [last_call EXCEPT !.calls = @ + 1]
    /\ rs_ret' = FALSE
    /\ pc1' = "lock"
    /\ UNCHANGED ramp_to_rest

(* lines 212-215: ramp_step returned false: ping, sleep, next ramp_step *)
RampToLoop ==
    /\ pc1 = "ret" /\ last_call.fn = "ramp_to" /\ ~rs_ret
    /\ LET B == ramp_step_begin(current_khz, last_call.clamped, current_voltage_mv, vreg_mv)
       IN  /\ rs' = B.rs
           /\ current_voltage_mv' = B.mv
           /\ vreg_mv' = B.hw
           /\ ramp_log' = B.log
    /\ wd' = [wd EXCEPT !.ping = @ + 1]
    /\ now_ms' = now_ms + RAMP_DELAY_MS
    /\ last_call' = [last_call EXCEPT !.calls = @ + 1]
    /\ rs_ret' = FALSE
    /\ pc1' = "lock"
    /\ UNCHANGED ramp_to_rest

(* lines 217-223: ramp_step returned true: the final ping and delay *)
RampToReturn ==
    /\ pc1 = "ret" /\ last_call.fn = "ramp_to" /\ rs_ret
    /\ wd' = [wd EXCEPT !.ping = @ + 1]
    /\ now_ms' = now_ms + RAMP_DELAY_MS
    /\ last_call' = [last_call EXCEPT !.done = TRUE, !.failed = ~rs.ok]
    /\ rs' = rs_idle
    /\ rs_ret' = FALSE
    /\ ramp_log' = << >>
    /\ pc1' = "loop"
    /\ UNCHANGED << current_voltage_mv, vreg_mv, ramp_to_rest >>

RampToRun ==
    \/ RsLock \/ RsPllBegin \/ RsPllEnd \/ RsUnlock \/ RsPost
    \/ RampToLoop \/ RampToReturn

NextRampTo ==
    \/ Core1Boot
    \/ \E new_khz \in RampToSet : RampToCall(new_khz)
    \/ RampToRun

InitRampTo == InitMainFrom({NoRec}) /\ FaIdle /\ RingIdle /\ PersistIdle /\ AuxIdle

SpecRampTo == InitRampTo /\ [][NextRampTo]_vars

(* core 1 keeps executing the call it is in *)
SpecRampToFair == SpecRampTo /\ WF_vars(RampToRun)

(* ======================= two cores: mutexes and lockout ================ *)
(* Every operation that takes a mutex, the lockout or masks interrupts is *)
(* the sequence of its steps; a core runs the steps of the operation it   *)
(* is in one at a time, interleaved with the other core.                  *)

(* dmesg.c:21-31: format under log_mutex, send to the UART after release *)
ops_dmesg_log ==
    << <<"enter", "log_mutex">>, <<"work", "snprintf">>,
       <<"exit", "log_mutex">>, <<"work", "uart_log_send">> >>

(* dmesg.c:33-45: the whole buffer is printed under log_mutex *)
ops_dmesg_print ==
    << <<"enter", "log_mutex">>, <<"work", "printf">>, <<"exit", "log_mutex">> >>

(* metrics.c:42-54 *)
ops_metrics_submit ==
    << <<"enter", "metrics_lock">>, <<"work", "buf">>, <<"exit", "metrics_lock">> >>

(* metrics.c:56-97 *)
ops_metrics_get_aggregate ==
    << <<"enter", "metrics_lock">>, <<"work", "buf">>, <<"exit", "metrics_lock">> >>

(* metrics.c:99-109 *)
ops_metrics_publish_kernel ==
    << <<"enter", "kernel_lock">>, <<"publish", "kernel_snap">>,
       <<"exit", "kernel_lock">> >>

(* metrics.c:111-120: the copy is made under kernel_lock, the validity is *)
(* read from kernel_snap after mutex_exit                                 *)
ops_metrics_get_kernel_snapshot ==
    << <<"enter", "kernel_lock">>, <<"copy", "kernel_snap">>,
       <<"exit", "kernel_lock">>, <<"valid", "kernel_snap">> >>

(* persist.c:62-65 *)
ops_persist_save ==
    << <<"irq_disable", "">>, <<"work", "flash">>, <<"irq_restore", "">> >>

(* system.c:161-178 with the failure report before the lockout is given   *)
(* back                                                                    *)
ops_ramp_step_log_locked(ok) ==
    << <<"lockout_start", "">>, <<"lockout_wait", "">>, <<"work", "set_sys_clock_khz">> >>
    \o (IF ok THEN << >> ELSE ops_dmesg_log)
    \o << <<"lockout_end", "">> >>

(* system.c:161-178: the PLL is set inside the lockout; a failure is      *)
(* logged after multicore_lockout_end_blocking                            *)
ops_ramp_step(ok) ==
    << <<"lockout_start", "">>, <<"lockout_wait", "">>, <<"work", "set_sys_clock_khz">>,
       <<"lockout_end", "">> >>
    \o (IF ok THEN << >> ELSE ops_dmesg_log)

RampKinds == {"none", "ok", "fail"}

(* one iteration of the loop of core1_entry, system.c:254-294: aggregate, *)
(* optional STAT line, the governor's tick (optional log line, optional   *)
(* ramp_step, sleep), publish                                             *)
ops_core1_loop(stat, logs, ramp) ==
    ops_metrics_get_aggregate
    \o (IF stat THEN ops_dmesg_log ELSE << >>)
    \o (IF logs THEN ops_dmesg_log ELSE << >>)
    \o (IF ramp = "none" THEN << >> ELSE ops_ramp_step(ramp = "ok"))
    \o << <<"work", "sleep_ms">> >>
    \o ops_metrics_publish_kernel

LkCmds == {"metrics", "metrics_empty", "dmesg", "bench", "gov"}

(* shell commands of core 0: cmd_metrics (commands.c:133-157), dmesg      *)
(* (commands.c:219), a benchmark interval (benchmark.c:52-83), gov set    *)
(* (governors.c:48-54: init logs, then persist_save)                      *)
ops_cmd(cmd) ==
    CASE cmd = "metrics"       -> ops_metrics_get_aggregate \o ops_metrics_get_kernel_snapshot
      [] cmd = "metrics_empty" -> ops_metrics_get_aggregate
      [] cmd = "dmesg"         -> ops_dmesg_print
      [] cmd = "bench"         -> ops_dmesg_log \o ops_metrics_submit \o ops_dmesg_log
      [] cmd = "gov"           -> ops_dmesg_log \o ops_persist_save

At(c, kind) == todo[c] /= << >> /\ Head(todo[c])[1] = kind

(* core 0 spins in the lockout handler while the lockout is held *)
Halted(c) == c = "c0" /\ lockout = "held"

Pop(c) == todo' = [todo EXCEPT ![c] = Tail(@)]

lk_rest == << prog_vars, wd, tick_until_ms, last_call, throttle_active >>

(* mutex_enter_blocking *)
MutexEnter(c) ==
    /\ At(c, "enter") /\ ~Halted(c)
    /\ mtx[Head(todo[c])[2]] = "none"
    /\ mtx' = [mtx EXCEPT ![Head(todo[c])[2]] = c]
    /\ Pop(c)
    /\ UNCHANGED << lockout, irq_off, kernel_snap, ks_out, ks_ret, lk_rest >>

(* mutex_exit *)
MutexExit(c) ==
    /\ At(c, "exit") /\ ~Halted(c)
    /\ mtx' = [mtx EXCEPT ![Head(todo[c])[2]] = "none"]
    /\ Pop(c)
    /\ UNCHANGED << lockout, irq_off, kernel_snap, ks_out, ks_ret, lk_rest >>

(* code that takes no lock: snprintf, printf, the UART, the flash, sleep *)
Work(c) ==
    /\ At(c, "work") /\ ~Halted(c)
    /\ Pop(c)
    /\ UNCHANGED << mtx, lockout, irq_off, kernel_snap, ks_out, ks_ret, lk_rest >>

(* multicore_lockout_start_blocking, the request: core 0 takes the FIFO   *)
(* interrupt at once unless its interrupts are masked                     *)
LockoutStart ==
    /\ At("c1", "lockout_start")
    /\ lockout' = IF irq_off THEN "requested" ELSE "held"
    /\ Pop("c1")
    /\ UNCHANGED << mtx, irq_off, kernel_snap, ks_out, ks_ret, lk_rest >>

(* multicore_lockout_start_blocking returns when the victim has answered *)
LockoutWait ==
    /\ At("c1", "lockout_wait")
    /\ lockout = "held"
    /\ Pop("c1")
    /\ UNCHANGED << mtx, lockout, irq_off, kernel_snap, ks_out, ks_ret, lk_rest >>

(* multicore_lockout_end_blocking *)
LockoutEnd ==
    /\ At("c1", "lockout_end")
    /\ lockout' = "free"
    /\ Pop("c1")
    /\ UNCHANGED << mtx, irq_off, kernel_snap, ks_out, ks_ret, lk_rest >>

(* save_and_disable_interrupts, persist.c:62 *)
IrqDisable ==
    /\ At("c0", "irq_disable") /\ ~Halted("c0")
    /\ irq_off' = TRUE
    /\ Pop("c0")
    /\ UNCHANGED << mtx, lockout, kernel_snap, ks_out, ks_ret, lk_rest >>

(* restore_interrupts, persist.c:65: a pending lockout request is taken   *)
(* as soon as interrupts are back                                         *)
IrqRestore ==
    /\ At("c0", "irq_restore")
    /\ irq_off' = FALSE
    /\ lockout' = IF lockout = "requested" THEN "held" ELSE lockout
    /\ Pop("c0")
    /\ UNCHANGED << mtx, kernel_snap, ks_out, ks_ret, lk_rest >>

(* memcpy(&kernel_snap, snap), metrics.c:107: the tick count of the loop *)
KsPublish ==
    /\ At("c1", "publish")
    /\ kernel_snap' = kernel_snap + 1
    /\ Pop("c1")
    /\ UNCHANGED << mtx, lockout, irq_off, ks_out, ks_ret, lk_rest >>

(* memcpy(out, &kernel_snap), metrics.c:116 *)
KsCopy ==
    /\ At("c0", "copy") /\ ~Halted("c0")
    /\ ks_out' = kernel_snap
    /\ ks_ret' = -1
    /\ Pop("c0")
    /\ UNCHANGED << mtx, lockout, irq_off, kernel_snap, lk_rest >>

(* return (kernel_snap.gov_tick_count != 0) ? 1 : 0, metrics.c:119 *)
KsValid ==
    /\ At("c0", "valid") /\ ~Halted("c0")
    /\ ks_ret' = IF kernel_snap /= 0 THEN 1 ELSE 0
    /\ Pop("c0")
    /\ UNCHANGED << mtx, lockout, irq_off, kernel_snap, ks_out, lk_rest >>

(* core 1 starts the next iteration of its loop *)
LkLoop(stat, logs, ramp) ==
    /\ todo["c1"] = << >>
    /\ kernel_snap < MaxTicks
    /\ todo' = [todo EXCEPT !["c1"] = ops_core1_loop(stat, logs, ramp)]
    /\ UNCHANGED << mtx, lockout, irq_off, kernel_snap, ks_out, ks_ret, lk_rest >>

(* the main loop dispatches a command *)
LkCmd(cmd) ==
    /\ todo["c0"] = << >> /\ ~Halted("c0")
    /\ todo' = [todo EXCEPT !["c0"] = ops_cmd(cmd)]
    /\ UNCHANGED << mtx, lockout, irq_off, kernel_snap, ks_out, ks_ret, lk_rest >>

Core0Run ==
    \/ MutexEnter("c0") \/ MutexExit("c0") \/ Work("c0")
    \/ IrqDisable \/ IrqRestore \/ KsCopy \/ KsValid

Core1Run ==
    \/ MutexEnter("c1") \/ MutexExit("c1") \/ Work("c1")
    \/ LockoutStart \/ LockoutWait \/ LockoutEnd \/ KsPublish

Core1Loop == \E stat \in BOOLEAN : \E logs \in BOOLEAN : \E ramp \in RampKinds : LkLoop(stat, logs, ramp)

NextLk ==
    \/ Core0Run
    \/ Core1Run
    \/ Core1Loop
    \/ \E cmd \in LkCmds : LkCmd(cmd)

SpecLk == Init /\ [][NextLk]_vars

(* Both cores execute all the time: a step that stays possible is taken,  *)
(* and a core retrying mutex_enter_blocking gets the mutex when the owner *)
(* keeps releasing it (the owner does unlocked work between two uses).    *)
(* The user need not type commands.                                       *)
SpecLkFair == SpecLk /\ SF_vars(Core0Run) /\ SF_vars(Core1Run) /\ WF_vars(Core1Loop)

(* ======================= find_achievable_khz alone ======================= *)
FaBase == 145000
FaOffsets == {0, 1, 49, 50}
FaPoints == { FaBase + o : o \in FaOffsets } \cup { FaBase - o : o \in FaOffsets }
             \cup { FaBase - FaSpan, FaBase + FaSpan }
FaTargets == { FaBase - FaSpan, FaBase - 1, FaBase, FaBase + 1, FaBase + FaSpan }

InitFA ==
    /\ InitMain
    /\ RingIdle
    /\ PersistIdle
    /\ AuxIdle
    /\ pll_edge_khz = MAX_KHZ + 1
    /\ flash_name = NoRec
    /\ fa_valid \in SUBSET FaPoints
    /\ fa_cand = FaBase
    /\ fa_target \in FaTargets
    /\ fa_result = 0
    /\ fa_pc = "ready"

FaCall ==
    /\ fa_pc = "ready"
    /\ fa_result' = find_achievable_khz(fa_valid, fa_cand, fa_target)
    /\ fa_pc' = "done"
    /\ UNCHANGED << shared_vars, hw_vars, cur_gov, gov_vars, flash_vars, mbuf,
                    now_ms, core1_vars, core0_vars, arbiter_vars,
                    fa_valid, fa_cand, fa_target, fail_vars, unit_vars,
                    boot_inits >>

NextFA == FaCall

SpecFA == InitFA /\ [][NextFA]_vars


(* ======================= metrics ring alone (metrics.c) ================= *)

(* the k-th sample an application submits (k = 1, 2, ...) and the time of *)
(* its submission                                                         *)
SampleNo(k) ==
    [workload    |-> k % 3,
     intensity   |-> (k * 37) % 101,
     duration_ms |-> (k * 211) % 1000,
     ts_ms       |-> BOOT_MS + k]

(* metrics_submit, lines 46-53, under metrics_lock *)
RingSubmitKeepTail ==
    /\ m_n < MaxSubmits
    /\ m_n' = m_n + 1
    /\ m_buf' = (m_head :> SampleNo(m_n + 1)) @@ m_buf
    /\ m_head' = (m_head + 1) % METRICS_BUF_SZ
    /\ IF m_cnt < METRICS_BUF_SZ
       THEN m_cnt' = m_cnt + 1
       ELSE UNCHANGED m_cnt
    /\ UNCHANGED m_tail
    /\ m_op' = "submit"
    /\ m_out' = agg_zero
    /\ UNCHANGED << m_base, m_clears >>
    /\ UNCHANGED << shared_vars, hw_vars, cur_gov, gov_vars, flash_vars, mbuf,
                    now_ms, core1_vars, core0_vars, arbiter_vars, fa_vars,
                    fail_vars, boot_inits, persist_vars, aux_vars >>

RingSubmit ==
    /\ m_n < MaxSubmits
    /\ m_n' = m_n + 1
    /\ m_buf' = (m_head :> SampleNo(m_n + 1)) @@ m_buf
    /\ m_head' = (m_head + 1) % METRICS_BUF_SZ
    /\ IF m_cnt < METRICS_BUF_SZ
       THEN m_cnt' = m_cnt + 1 /\ UNCHANGED m_tail
       ELSE m_tail' = m_head' /\ UNCHANGED m_cnt
    /\ m_op' = "submit"
    /\ m_out' = agg_zero
    /\ UNCHANGED << m_base, m_clears >>
    /\ UNCHANGED << shared_vars, hw_vars, cur_gov, gov_vars, flash_vars, mbuf,
                    now_ms, core1_vars, core0_vars, arbiter_vars, fa_vars,
                    fail_vars, boot_inits, persist_vars, aux_vars >>

(* metrics_get_aggregate, lines 67-76: the walk of n records from index   *)
(* `from`, wrapping at METRICS_BUF_SZ; the loop's sums are taken by       *)
(* halving the range.                                                     *)
RECURSIVE RingSum(_, _, _, _, _)
RingSum(b, f, from, lo, hi) ==
    IF lo > hi THEN 0
    ELSE IF lo = hi THEN buf_at(b, (from + lo) % METRICS_BUF_SZ)[f]
    ELSE RingSum(b, f, from, lo, (lo + hi) \div 2)
         + RingSum(b, f, from, (lo + hi) \div 2 + 1, hi)

RingWalk(b, from, n) ==
    [agg_zero EXCEPT
        !.count      = n,
        !.sum_work   = RingSum(b, "workload", from, 0, n - 1),
        !.sum_int    = RingSum(b, "intensity", from, 0, n - 1),
        !.sum_dur    = RingSum(b, "duration_ms", from, 0, n - 1),
        !.last_ts_ms = IF n = 0 THEN 0
                       ELSE buf_at(b, (from + n - 1) % METRICS_BUF_SZ).ts_ms]

ring_sums_from_head(b, from, n) == RingWalk(b, m_head, n)

ring_sums(b, from, n) == RingWalk(b, from, n)

(* metrics_get_aggregate(out, clear); out's averages are sum / count      *)
(* (0 when count = 0), kept as the sums and the count.  since/upto record *)
(* how many samples had been submitted since the last consume, and in     *)
(* all, when the call was made.                                           *)
RingAggregateNoClear(clear) ==
    /\ clear => m_clears < MaxConsumes
    /\ m_clears' = IF clear THEN m_clears + 1 ELSE m_clears
    /\ m_out' = [ring_sums(m_buf, m_tail, m_cnt) EXCEPT
                    !.since = m_n - m_base, !.upto = m_n]
    /\ UNCHANGED << m_head, m_tail, m_cnt >>
    /\ m_base' = IF clear THEN m_n ELSE m_base
    /\ m_op' = IF clear THEN "consume" ELSE "peek"
    /\ UNCHANGED << m_buf, m_n >>
    /\ UNCHANGED << shared_vars, hw_vars, cur_gov, gov_vars, flash_vars, mbuf,
                    now_ms, core1_vars, core0_vars, arbiter_vars, fa_vars,
                    fail_vars, boot_inits, persist_vars, aux_vars >>

RingAggregate(clear) ==
    /\ clear => m_clears < MaxConsumes
    /\ m_clears' = IF clear THEN m_clears + 1 ELSE m_clears
    /\ m_out' = [ring_sums(m_buf, m_tail, m_cnt) EXCEPT
                    !.since = m_n - m_base, !.upto = m_n]
    /\ IF clear
       THEN m_head' = 0 /\ m_tail' = 0 /\ m_cnt' = 0
       ELSE UNCHANGED << m_head, m_tail, m_cnt >>
    /\ m_base' = IF clear THEN m_n ELSE m_base
    /\ m_op' = IF clear THEN "consume" ELSE "peek"
    /\ UNCHANGED << m_buf, m_n >>
    /\ UNCHANGED << shared_vars, hw_vars, cur_gov, gov_vars, flash_vars, mbuf,
                    now_ms, core1_vars, core0_vars, arbiter_vars, fa_vars,
                    fail_vars, boot_inits, persist_vars, aux_vars >>

NextRing == RingSubmit \/ RingAggregate(FALSE) \/ RingAggregate(TRUE)

InitRing == Init /\ pll_edge_khz = MAX_KHZ + 1

SpecRing == InitRing /\ [][NextRing]_vars


(* ---------------- the ring used from both cores ---------------- *)
(* metrics_submit and metrics_get_aggregate as the steps of a core: the   *)
(* lock, the slot and head (lines 47-51), the count or the overwrite      *)
(* (line 52); the lock, the walk (lines 66-76), the clear (lines 77-79).  *)
(* The buffer is initialised: metrics_inited = 1 and the lock exists.     *)
ops_ring_submit ==
    << <<"enter", "metrics_lock">>, <<"m_put", 0>>, <<"m_cnt", 0>>,
       <<"exit", "metrics_lock">> >>

ops_ring_aggregate_unlocked(clear) ==
    << <<"m_walk", IF clear THEN 1 ELSE 0>> >>
    \o (IF clear THEN << <<"m_clear", 0>> >> ELSE << >>)

ops_ring_aggregate(clear) ==
    << <<"enter", "metrics_lock">>, <<"m_walk", IF clear THEN 1 ELSE 0>> >>
    \o (IF clear THEN << <<"m_clear", 0>> >> ELSE << >>)
    \o << <<"exit", "metrics_lock">> >>

RingOps == {"submit", "peek", "consume"}

ops_ring(op) ==
    CASE op = "submit"  -> ops_ring_submit
      [] op = "peek"    -> ops_ring_aggregate(FALSE)
      [] op = "consume" -> ops_ring_aggregate(TRUE)

(* buffer fills at which the two cores start to call concurrently *)
RingFill == {0, 1, METRICS_BUF_SZ - 1, METRICS_BUF_SZ}

(* calls: calls started by the two cores; consumed: samples counted by    *)
(* the consuming aggregates; dropped: samples overwritten in a full       *)
(* buffer; overlap: a consuming aggregate cleared the buffer while the    *)
(* other core was inside metrics_submit.                                  *)
ring_call0 == [fn |-> "metrics", calls |-> 0, consumed |-> 0, dropped |-> 0,
               overlap |-> FALSE]

InSubmit(c) == \E i \in DOMAIN todo[c] : todo[c][i][1] = "m_put"

ring_rest == << shared_vars, hw_vars, cur_gov, gov_vars, flash_vars, mbuf,
                now_ms, core1_vars, core0_vars, arbiter_vars, fa_vars,
                fail_vars, boot_inits, persist_vars, wd, tick_until_ms,
                throttle_active, mtx, lockout, irq_off, kernel_snap, ks_out,
                ks_ret >>

(* samples submitted one call at a time before the cores overlap *)
RingFillStep ==
    /\ last_call.calls = 0
    /\ m_n < METRICS_BUF_SZ
    /\ RingSubmit

RingCall(c, op) ==
    /\ todo[c] = << >>
    /\ last_call.calls < MaxRingCalls
    /\ last_call.calls = 0 => m_n \in RingFill
    /\ op = "consume" => m_clears < MaxConsumes
    /\ todo' = [todo EXCEPT ![c] = ops_ring(op)]
    /\ last_call' = [last_call EXCEPT !.calls = @ + 1]
    /\ UNCHANGED << ring_vars, ring_rest >>

(* buf[head] = record; head = (head + 1) & (METRICS_BUF_SZ - 1) *)
RingPut(c) ==
    /\ At(c, "m_put")
    /\ m_buf' = (m_head :> SampleNo(m_n + 1)) @@ m_buf
    /\ m_head' = (m_head + 1) % METRICS_BUF_SZ
    /\ Pop(c)
    /\ UNCHANGED << m_tail, m_cnt, m_n, m_base, m_clears, m_out, m_op,
                    last_call, ring_rest >>

(* if (cnt < METRICS_BUF_SZ) cnt++; else tail = head; *)
RingCnt(c) ==
    /\ At(c, "m_cnt")
    /\ IF m_cnt < METRICS_BUF_SZ
       THEN m_cnt' = m_cnt + 1 /\ UNCHANGED << m_tail, last_call >>
       ELSE /\ m_tail' = m_head
            /\ last_call' = [last_call EXCEPT !.dropped = @ + 1]
            /\ UNCHANGED m_cnt
    /\ m_n' = m_n + 1
    /\ m_op' = "submit"
    /\ Pop(c)
    /\ UNCHANGED << m_buf, m_head, m_base, m_clears, m_out, ring_rest >>

(* the loop over cnt records from tail; local_cnt is carried to the clear *)
RingWalkStep(c) ==
    /\ At(c, "m_walk")
    /\ m_out' = [ring_sums(m_buf, m_tail, m_cnt) EXCEPT
                    !.since = m_n - m_base, !.upto = m_n]
    /\ m_op' = "peek"
    /\ todo' = [todo EXCEPT ![c] =
                  IF Head(@)[2] = 1
                  THEN << <<"m_clear", m_cnt>> >> \o Tail(Tail(@))
                  ELSE Tail(@)]
    /\ UNCHANGED << m_buf, m_head, m_tail, m_cnt, m_n, m_base, m_clears,
                    last_call, ring_rest >>

(* if (clear) head = tail = cnt = 0; *)
RingClear(c) ==
    /\ At(c, "m_clear")
    /\ m_head' = 0 /\ m_tail' = 0 /\ m_cnt' = 0
    /\ m_clears' = m_clears + 1
    /\ m_base' = m_n
    /\ m_op' = "consume"
    /\ last_call' = [last_call EXCEPT
                        !.consumed = @ + Head(todo[c])[2],
                        !.overlap  = @ \/ \E d \in Cores \ {c} : InSubmit(d)]
    /\ Pop(c)
    /\ UNCHANGED << m_buf, m_n, m_out, ring_rest >>

NextRing2 ==
    \/ RingFillStep
    \/ \E c \in Cores :
         \/ \E op \in RingOps : RingCall(c, op)
         \/ MutexEnter(c)
         \/ MutexExit(c)
         \/ RingPut(c)
         \/ RingCnt(c)
         \/ RingWalkStep(c)
         \/ RingClear(c)

InitRing2 ==
    /\ InitMain /\ pll_edge_khz = MAX_KHZ + 1
    /\ FaIdle /\ RingIdle /\ PersistIdle /\ ConcIdle
    /\ wd = wd_boot
    /\ tick_until_ms = BOOT_MS + MaxElapsedMs
    /\ last_call = ring_call0
    /\ throttle_active = FALSE

SpecRing2 == InitRing2 /\ [][NextRing2]_vars

(* ======================= persist.c alone ============================== *)
(* Calls of the persistence API on core 0, one after the other, on the    *)
(* one flash sector; a reboot that keeps the flash; and the flash bytes   *)
(* changed behind the program's back, one byte of the record or one field *)
(* of the blob since its last save.                                       *)
NameSet == { << 111, 110, 100, 101, 109, 97, 110, 100 >>,                 \* "ondemand"
             << 114, 112, 50, 48, 52, 48, 95, 112, 101, 114, 102 >>,      \* "rp2040_perf"
             << >>, Rep(97, NAME_SZ - 1), Rep(98, NAME_SZ) }
BlobSet == { << >>, << 7 >>, << 1, 200 >>, << 30, 5, 90 >>, << 9, 8, 7, 6 >> }
MaxLenSet == 0..4

other_vars == << shared_vars, hw_vars, cur_gov, gov_vars, flash_vars, mbuf,
                 now_ms, core1_vars, core0_vars, arbiter_vars, fa_vars,
                 fail_vars, boot_inits, ring_vars, aux_vars >>

(* persist_save lines 53-60 and persist_save_rp_params lines 96-109: the  *)
(* sector is copied to RAM, the one region overwritten, and the whole     *)
(* sector erased and programmed again; nothing is written when malloc     *)
(* returns NULL.                                                          *)
sector_with_rec_only(sector, rec) == [rec |-> rec, blob |-> blob_erased]

sector_with_rec(sector, rec) == [sector EXCEPT !.rec = rec]

sector_with_blob(sector, blob) == [sector EXCEPT !.blob = blob]

PSaveName(name, alloc_ok) ==
    /\ p_ops < MaxPersistOps
    /\ p_ops' = p_ops + 1
    /\ p_prev' = p_op
    /\ IF alloc_ok
       THEN /\ LET sec == sector_with_rec([rec |-> fl_rec, blob |-> fl_blob],
                                          persist_save_rec(name))
               IN  fl_rec' = sec.rec /\ fl_blob' = sec.blob
            /\ p_saved_name' = name
            /\ p_dirty' = p_dirty \ {"rec"}
            /\ p_op' = "save_name"
       ELSE /\ UNCHANGED << fl_rec, fl_blob, p_saved_name, p_dirty >>
            /\ p_op' = "save_name_failed"
    /\ UNCHANGED << p_name, p_blob, p_params, p_saved_blob, other_vars >>

PSaveBlob(buf, alloc_ok) ==
    /\ p_ops < MaxPersistOps
    /\ p_ops' = p_ops + 1
    /\ p_prev' = p_op
    /\ IF persist_save_rp_params_rc(buf) = 0 /\ alloc_ok
       THEN /\ LET sec == sector_with_blob([rec |-> fl_rec, blob |-> fl_blob],
                                           persist_blob(buf))
               IN  fl_rec' = sec.rec /\ fl_blob' = sec.blob
            /\ p_saved_blob' = buf
            /\ p_dirty' = p_dirty \ {"blob"}
            /\ p_op' = "save_blob"
       ELSE /\ UNCHANGED << fl_rec, fl_blob, p_saved_blob, p_dirty >>
            /\ p_op' = "save_blob_failed"
    /\ UNCHANGED << p_name, p_blob, p_params, p_saved_name, other_vars >>

PLoadName ==
    /\ p_ops < MaxPersistOps
    /\ p_ops' = p_ops + 1
    /\ p_prev' = p_op
    /\ p_name' = persist_load(fl_rec, 64)
    /\ p_op' = "load_name"
    /\ UNCHANGED << fl_rec, fl_blob, p_blob, p_params, p_saved_name, p_saved_blob,
                    p_dirty, other_vars >>

PLoadBlob(maxlen) ==
    /\ p_ops < MaxPersistOps
    /\ p_ops' = p_ops + 1
    /\ p_prev' = p_op
    /\ p_blob' = persist_load_rp_params(fl_blob, Rep(0, maxlen), maxlen)
    /\ p_op' = "load_blob"
    /\ UNCHANGED << fl_rec, fl_blob, p_name, p_params, p_saved_name, p_saved_blob,
                    p_dirty, other_vars >>

(* rp_init, governors_rp2040_perf.c line 164: the load is made straight   *)
(* into rp_params.                                                        *)
PRpInit ==
    /\ p_ops < MaxPersistOps
    /\ p_ops' = p_ops + 1
    /\ p_prev' = p_op
    /\ p_blob' = persist_load_rp_params(fl_blob, p_params, Len(p_params))
    /\ p_params' = p_blob'.out
    /\ p_op' = "rp_init"
    /\ UNCHANGED << fl_rec, fl_blob, p_name, p_saved_name, p_saved_blob, p_dirty,
                    other_vars >>

PReboot ==
    /\ p_ops < MaxPersistOps
    /\ p_ops' = p_ops + 1
    /\ p_prev' = p_op
    /\ p_name' = [rc |-> -1, name |-> << >>]
    /\ p_blob' = [rc |-> -1, out |-> << >>]
    /\ p_params' = params_default
    /\ p_op' = "reboot"
    /\ UNCHANGED << fl_rec, fl_blob, p_saved_name, p_saved_blob, p_dirty, other_vars >>

PChangeRecByte(i, how) ==
    /\ p_ops < MaxPersistOps
    /\ p_ops' = p_ops + 1
    /\ p_prev' = p_op
    /\ p_saved_name /= NoName
    /\ "rec" \notin p_dirty
    /\ fl_rec' = [fl_rec EXCEPT !.bytes[i] = IF how = "next" THEN (@ + 1) % 256 ELSE 255 - @]
    /\ p_dirty' = p_dirty \cup {"rec"}
    /\ p_op' = "change_rec"
    /\ UNCHANGED << fl_blob, p_name, p_blob, p_params, p_saved_name, p_saved_blob,
                    other_vars >>

PChangeBlob(what) ==
    /\ p_ops < MaxPersistOps
    /\ p_ops' = p_ops + 1
    /\ p_prev' = p_op
    /\ p_saved_blob /= << >>
    /\ "blob" \notin p_dirty
    /\ fl_blob' = CASE what = "magic" -> [fl_blob EXCEPT !.magic = << fl_blob.magic[1], (fl_blob.magic[2] + 1) % 65536 >>]
                    [] what = "len0"  -> [fl_blob EXCEPT !.llen = WordOf(0)]
                    [] what = "lenFF" -> [fl_blob EXCEPT !.llen = ERASED_WORD]
                    [] what = "data"  -> [fl_blob EXCEPT !.data[1] = (fl_blob.data[1] + 1) % 256]
                    [] what = "crc"   -> [fl_blob EXCEPT !.crc = << fl_blob.crc[1], (fl_blob.crc[2] + 1) % 65536 >>]
    /\ p_dirty' = p_dirty \cup {"blob"}
    /\ p_op' = "change_blob"
    /\ UNCHANGED << fl_rec, p_name, p_blob, p_params, p_saved_name, p_saved_blob,
                    other_vars >>

NextP ==
    \/ \E name \in NameSet : \E alloc_ok \in BOOLEAN : PSaveName(name, alloc_ok)
    \/ \E buf \in BlobSet : \E alloc_ok \in BOOLEAN : PSaveBlob(buf, alloc_ok)
    \/ PLoadName
    \/ \E maxlen \in MaxLenSet : PLoadBlob(maxlen)
    \/ PRpInit
    \/ PReboot

SpecP == InitRing /\ [][NextP]_vars

(* the same calls with the flash changed under them *)
NextPC ==
    \/ \E name \in { Rep(97, NAME_SZ - 1), << 111, 110, 100, 101, 109, 97, 110, 100 >> } :
           PSaveName(name, TRUE)
    \/ \E buf \in { << 7 >>, << 30, 5, 90 >> } : PSaveBlob(buf, TRUE)
    \/ PLoadName
    \/ PLoadBlob(3)
    \/ PRpInit
    \/ \E i \in 1..(8 + NAME_SZ) : \E how \in {"next", "inverse"} : PChangeRecByte(i, how)
    \/ \E what \in {"magic", "len0", "lenFF", "data", "crc"} : PChangeBlob(what)

SpecPC == InitRing /\ [][NextPC]_vars



(* ======================= persist show ================================== *)
(* cmd_persist lines 173-186: persist_load into name[64], then            *)
(* persist_load_rp_params into a 4-byte buffer; what the two printed      *)
(* lines say.                                                             *)
cmd_persist(rec, blob) ==
    [ name_shown   |-> persist_load(rec, SHOW_NAME_SZ).rc = 0,
      tuning_shown |-> persist_load_rp_params(blob, Rep(0, SHOW_BUF_SZ), SHOW_BUF_SZ).rc > 0 ]

CmdPersist ==
    /\ p_ops < MaxPersistOps
    /\ p_ops' = p_ops + 1
    /\ p_prev' = p_op
    /\ p_op' = "show"
    /\ last_call' = [fn |-> "cmd_persist", rec |-> fl_rec, blob |-> fl_blob,
                     shown |-> cmd_persist(fl_rec, fl_blob)]
    /\ UNCHANGED << fl_rec, fl_blob, p_name, p_blob, p_params, p_saved_name,
                    p_saved_blob, p_dirty, shared_vars, hw_vars, cur_gov,
                    gov_vars, flash_vars, mbuf, now_ms, core1_vars, core0_vars,
                    arbiter_vars, fa_vars, fail_vars, boot_inits, ring_vars,
                    wd, tick_until_ms, throttle_active, conc_vars >>

(* two images of rp_params as persist_save_rp_params(&rp_params,          *)
(* sizeof(rp_params)) receives them from an accepted tune set             *)
RpParamsImages == { Rep(0, RP_PARAMS_SZ), [i \in 1..RP_PARAMS_SZ |-> i] }

ShowNameSet == { << 111, 110, 100, 101, 109, 97, 110, 100 >>,                 \* "ondemand"
                 << 114, 112, 50, 48, 52, 48, 95, 112, 101, 114, 102 >> }     \* "rp2040_perf"

NextShow ==
    \/ \E name \in ShowNameSet : \E alloc_ok \in BOOLEAN : PSaveName(name, alloc_ok)
    \/ \E buf \in RpParamsImages : \E alloc_ok \in BOOLEAN : PSaveBlob(buf, alloc_ok)
    \/ \E what \in {"magic", "len0", "lenFF", "data", "crc"} : PChangeBlob(what)
    \/ CmdPersist

SpecShow == InitRing /\ [][NextShow]_vars

SpecArb == Init /\ [][Core1Step \/ ArbiterStep \/ (\E m \in SampleSet : MetricsSubmit(m[1], m[2]))]_vars

(* ======================= properties ======================= *)

(* the voltage/frequency table of the design (section 4.E) *)
MinSafeMv(khz) ==
    IF khz <= 200000 THEN 1100
    ELSE IF khz <= 250000 THEN 1200
    ELSE 1300

IsVreg(e) == e[1] = "vreg"
IsPll(e)  == e[1] = "pll"

(* C2: in a ramp step the voltage of an up-step is set before the PLL set *)
(* is attempted; the voltage of a down-step is set after the PLL set has  *)
(* succeeded, and not at all when it failed.                              *)
Thm_C2_VoltagePllOrder ==
    /\ (pc1 \in {"lock", "pll", "pll_busy"} /\ rs.stepping_up) =>
          /\ ramp_log = << <<"vreg", rs.next_khz>> >>
          /\ current_voltage_mv >= MinSafeMv(rs.next_khz)
    /\ (pc1 \in {"lock", "pll", "pll_busy"} /\ ~rs.stepping_up) => ramp_log = << >>
    /\ \A i \in 1..Len(ramp_log) :
          /\ (IsPll(ramp_log[i]) /\ rs.stepping_up) =>
                i = 2 /\ ramp_log[1] = <<"vreg", rs.next_khz>>
          /\ (IsPll(ramp_log[i]) /\ ~rs.stepping_up) => i = 1
          /\ (IsVreg(ramp_log[i]) /\ ~rs.stepping_up) =>
                i = 2 /\ ramp_log[1] = <<"pll", rs.next_khz, TRUE>>
    /\ (pc1 = "ret" /\ ~rs.stepping_up /\ rs.ok) =>
          ramp_log = << <<"pll", rs.next_khz, TRUE>>, <<"vreg", rs.next_khz>> >>
    /\ (pc1 = "ret" /\ ~rs.stepping_up /\ ~rs.ok) =>
          /\ ramp_log = << <<"pll", rs.next_khz, FALSE>> >>
          /\ current_voltage_mv >= rs.from_mv

(* a down-step has completed and lowered the voltage *)
Wit_C2 ==
    /\ pc1 = "ret" /\ rs.ok /\ ~rs.stepping_up
    /\ current_voltage_mv < rs.from_mv

(* C3: from before the PLL set starts until after it has returned, core 1 *)
(* holds the lockout and no operation of core 0 can take a step; the      *)
(* lockout is held nowhere else.                                          *)
Thm_C3_LockoutAroundPll ==
    /\ pc1 \in {"pll", "pll_busy", "unlock"} => (lockout_held /\ ~ENABLED Core0Step)
    /\ lockout_held => pc1 \in {"pll", "pll_busy", "unlock"}

(* the PLL set has failed and the lockout is still held *)
Wit_C3 == pc1 = "unlock" /\ ~rs.ok /\ lockout_held

(* C4: target_khz and current_khz stay within [MIN_KHZ, MAX_KHZ].         *)
Claim_C4_FrequenciesInRange ==
    /\ MIN_KHZ <= target_khz /\ target_khz <= MAX_KHZ
    /\ MIN_KHZ <= current_khz /\ current_khz <= MAX_KHZ

Abs(x) == IF x < 0 THEN 0 - x ELSE x

(* C5: a successful ramp step changes current_khz by at most              *)
(* 1.2 * RAMP_STEP_KHZ.                                                   *)
Claim_C5_StepBounded ==
    (pc1 = "ret" /\ rs.ok) =>
        10 * Abs(current_khz - rs.from_khz) <= 12 * RAMP_STEP_KHZ


(* what the scan is specified to return: the first accepted value of      *)
(* candidate, candidate +/- 1, ... toward target, among at most           *)
(* FA_MAX_PROBES values and not past target; target when there is none.   *)
FaExpected ==
    LET up   == fa_cand <= fa_target
        seq  == { k \in 0..(FA_MAX_PROBES - 1) :
                    IF up THEN fa_cand + k <= fa_target
                          ELSE fa_cand - k >= fa_target }
        at(k) == IF up THEN fa_cand + k ELSE fa_cand - k
        hits == { k \in seq : at(k) \in fa_valid }
    IN  IF hits = {} THEN fa_target
        ELSE at(CHOOSE k \in hits : \A j \in hits : k <= j)

(* C6: find_achievable_khz returns the first accepted value scanning from *)
(* candidate toward target, in both directions, and target when none of   *)
(* the examined values is accepted.                                       *)
Claim_C6_FirstAccepted ==
    fa_pc = "done" => fa_result = FaExpected

(* C7: when the PLL set of a ramp step fails, the clock and current_khz   *)
(* stay as they were, target_khz becomes current_khz, ramp_step returns   *)
(* true, and the failure branch writes nothing else.                      *)
Thm_C7_PllFailureClamps ==
    [][ /\ (pc1 = "pll_busy" /\ pc1' = "unlock" /\ ~rs'.ok) =>
              UNCHANGED << sys_clk_khz, current_khz, target_khz >>
        /\ (pc1 = "post" /\ pc1' = "ret" /\ ~rs.ok) =>
              /\ current_khz' = current_khz
              /\ current_khz' = rs.from_khz
              /\ target_khz' = current_khz
              /\ rs_ret' = TRUE
              /\ UNCHANGED << sys_clk_khz, current_voltage_mv, vreg_mv >> ]_vars

(* ramp_step has returned from its failure branch *)
Wit_C7 ==
    /\ pc1 = "ret" /\ ~rs.ok /\ rs_ret
    /\ target_khz = current_khz
    /\ rs.next_khz /= current_khz

(* C8: once the PLL set of the step from c to f has failed, that step is  *)
(* not attempted again while current_khz is still c and no new request    *)
(* has arrived.                                                           *)
Claim_C8_NoRetryAfterFailure ==
    ~ ( /\ pc1 = "pll_busy"
        /\ fail_at /= 0
        /\ rs.from_khz = fail_from
        /\ rs.next_khz = fail_at
        /\ current_khz = fail_from )

(* C9: when ramp_step returns from a successful clock change the arbiter  *)
(* has been notified of the new frequency.                                *)
Claim_C9_NotifyAfterChange ==
    (pc1 = "ret" /\ rs.ok) => notified_khz = current_khz

(* C10: a governor tick starts a ramp step only when safe_to_scale holds  *)
(* at that tick.                                                          *)
Claim_C10_RampGatedByArbiter ==
    [][ (pc1 = "loop" /\ pc1' = "lock") => pio_idle_safe_to_scale ]_vars


(* ---------------- metrics ring ---------------- *)

(* the sum of one field over the samples number a..b *)
RECURSIVE ExpSum(_, _, _)
ExpSum(f, a, b) ==
    IF a > b THEN 0
    ELSE IF a = b THEN SampleNo(a)[f]
    ELSE ExpSum(f, a, (a + b) \div 2) + ExpSum(f, (a + b) \div 2 + 1, b)

AggIsOver(out, a, b) ==
    /\ out.count = b - a + 1
    /\ out.sum_work * (b - a + 1) = ExpSum("workload", a, b) * out.count
    /\ out.sum_int * (b - a + 1) = ExpSum("intensity", a, b) * out.count
    /\ out.sum_dur * (b - a + 1) = ExpSum("duration_ms", a, b) * out.count
    /\ out.last_ts_ms = IF b < a THEN 0 ELSE SampleNo(b).ts_ms

(* C11: an aggregate over N <= 128 samples submitted into an empty buffer *)
(* returns count N, averages equal to the sums of the submitted values    *)
(* divided by N, and the timestamp of the last sample.                    *)
Thm_C11_AggregateExact ==
    (m_op \in {"peek", "consume"} /\ m_out.since <= METRICS_BUF_SZ) =>
        AggIsOver(m_out, m_out.upto - m_out.since + 1, m_out.upto)

(* an aggregate over exactly METRICS_BUF_SZ samples, after one consume *)
Wit_C11 ==
    /\ m_op = "peek" /\ m_out.since = METRICS_BUF_SZ
    /\ m_out.count = METRICS_BUF_SZ
    /\ m_clears = 1 /\ m_base > 0

(* C12: after more than 128 submits without a consume the buffer holds   *)
(* the last 128 samples in submission order, and an aggregate returns     *)
(* count 128 and the sums over exactly those.                             *)
Thm_C12_KeepsLast128 ==
    /\ (m_n - m_base > METRICS_BUF_SZ) =>
          /\ m_cnt = METRICS_BUF_SZ
          /\ \A j \in 0..(METRICS_BUF_SZ - 1) :
                buf_at(m_buf, (m_tail + j) % METRICS_BUF_SZ)
                    = SampleNo(m_n - METRICS_BUF_SZ + 1 + j)
    /\ (m_op \in {"peek", "consume"} /\ m_out.since > METRICS_BUF_SZ) =>
          AggIsOver(m_out, m_out.upto - METRICS_BUF_SZ + 1, m_out.upto)

(* an aggregate after two samples have been overwritten *)
Wit_C12 ==
    /\ m_op = "peek" /\ m_out.since = METRICS_BUF_SZ + 2
    /\ m_out.count = METRICS_BUF_SZ

(* C13: the aggregate that follows a consuming aggregate returns count 0  *)
(* and zero sums; a peek leaves the buffer as it was, and a peek that     *)
(* follows a peek returns the same result.                                *)
Thm_C13_ConsumeEmptiesPeekKeeps ==
    [][ /\ (m_op = "consume" /\ m_op' \in {"peek", "consume"}) =>
              /\ m_out'.count = 0 /\ m_out'.sum_work = 0 /\ m_out'.sum_int = 0
              /\ m_out'.sum_dur = 0 /\ m_out'.last_ts_ms = 0
        /\ (m_op' = "consume") => (m_cnt' = 0 /\ m_head' = m_tail')
        /\ (m_op' = "peek") => UNCHANGED << m_buf, m_head, m_tail, m_cnt >>
        /\ (m_op = "peek" /\ m_op' = "peek") => m_out' = m_out ]_vars

(* a peek of the buffer a consume has emptied *)
Wit_C13 ==
    /\ m_op = "peek" /\ m_clears = 1 /\ m_base = m_n /\ m_base > 0
    /\ m_out.count = 0

(* ---------------- persisted records ---------------- *)

(* C14: a governor name of at most 55 characters that was saved is what   *)
(* the next load of the record returns, whatever calls and reboots lie    *)
(* between the save and the load.                                         *)
Thm_C14_NameRoundTrip ==
    (p_op = "load_name" /\ p_saved_name /= NoName /\ Len(p_saved_name) <= NAME_SZ - 1) =>
        (p_name.rc = 0 /\ p_name.name = p_saved_name)

(* a name of 55 characters loaded right after a reboot *)
Wit_C14 ==
    /\ p_op = "load_name" /\ p_prev = "reboot"
    /\ Len(p_saved_name) = NAME_SZ - 1
    /\ p_name.rc = 0 /\ p_name.name = p_saved_name

(* C15: after any single byte of the 64 bytes before the CRC field has    *)
(* been changed, the load of the record returns none.                     *)
Claim_C15_AnyChangedByteRefused ==
    (p_op = "load_name" /\ "rec" \in p_dirty) => p_name.rc = -1

(* C16: the two records live side by side.  A save of one kind leaves    *)
(* what a load of the other kind returns as it was, and a load returns    *)
(* the value saved last for its kind.                                     *)
Thm_C16_BlobsCoexist ==
    [][ /\ (p_op' = "save_name") =>
              \A maxlen \in MaxLenSet :
                  persist_load_rp_params(fl_blob', Rep(0, maxlen), maxlen)
                      = persist_load_rp_params(fl_blob, Rep(0, maxlen), maxlen)
        /\ (p_op' = "save_blob") => persist_load(fl_rec', 64) = persist_load(fl_rec, 64)
        /\ (p_op' = "load_name" /\ p_saved_name /= NoName /\ Len(p_saved_name) <= NAME_SZ - 1) =>
              p_name'.name = p_saved_name
        /\ (p_op' = "load_blob" /\ p_saved_blob /= << >>
                /\ Len(p_blob'.out) >= Len(p_saved_blob)) =>
              SubSeq(p_blob'.out, 1, Len(p_saved_blob)) = p_saved_blob ]_vars

(* the tuning blob loaded right after a save of the governor name, both   *)
(* records present                                                        *)
Wit_C16 ==
    /\ p_op = "load_blob" /\ p_prev = "save_name"
    /\ p_saved_blob /= << >> /\ p_blob.rc = Len(p_saved_blob)
    /\ persist_load(fl_rec, 64) = [rc |-> 0, name |-> p_saved_name]

(* C17: a load of the saved tuning blob of length L into a buffer of      *)
(* maxlen bytes returns L and fills the buffer's first L bytes with the   *)
(* blob when maxlen >= L, and returns none when maxlen < L.               *)
Thm_C17_TuningRoundTrip ==
    (p_op = "load_blob" /\ p_saved_blob /= << >>) =>
        IF Len(p_blob.out) >= Len(p_saved_blob)
        THEN /\ p_blob.rc = Len(p_saved_blob)
             /\ SubSeq(p_blob.out, 1, Len(p_saved_blob)) = p_saved_blob
             /\ \A k \in (Len(p_saved_blob) + 1)..Len(p_blob.out) : p_blob.out[k] = 0
        ELSE p_blob.rc = -1

(* a blob of three bytes loaded into a buffer of exactly three bytes *)
Wit_C17 ==
    /\ p_op = "load_blob" /\ Len(p_saved_blob) = 3
    /\ Len(p_blob.out) = 3 /\ p_blob.rc = 3 /\ p_blob.out = p_saved_blob

(* C18: an rp_init whose load of the tuning blob fails leaves the         *)
(* parameters as they were before the call.                               *)
Claim_C18_FailedLoadKeepsParams ==
    [][ (p_op' = "rp_init" /\ p_blob'.rc < 0) => p_params' = p_params ]_vars

(* ---------------- flash write, cold start ---------------- *)

(* C19: between the start of the sector erase and the end of the sector   *)
(* program of a persistence save the sibling core is held off: core 1     *)
(* takes no step.                                                         *)
Claim_C19_SiblingHeldOff ==
    [][ (pc0 \in FlashWritePcs) =>
            UNCHANGED << core1_vars, shared_vars, hw_vars, gov_vars, now_ms >> ]_vars

(* C20: after governors_init on a cold start the current governor is the  *)
(* registered governor the persisted record names, else rp2040_perf; it   *)
(* is never null, and exactly one init has run, that of this governor.    *)
Thm_C20_ColdStartGovernor ==
    (pc1 /= "boot") =>
        /\ cur_gov = (IF flash_name \in GovNames THEN flash_name ELSE "rp2040_perf")
        /\ cur_gov /= NoGov
        /\ boot_inits = << cur_gov >>

(* started with a record that names ondemand *)
Wit_C20 ==
    /\ pc1 = "loop" /\ flash_name = "ondemand" /\ cur_gov = "ondemand"
    /\ boot_inits = << "ondemand" >>

(* ---------------- liveness monitor ---------------- *)

(* C21: when the ping counter has not been incremented for more than 5 s  *)
(* the monitor has triggered the reset: as long as no reset has happened, *)
(* the monitor having run, the last increment is at most 5 s old.         *)
Claim_C21_StallOf5sResets ==
    (wd.resets = 0 /\ wd.polled_ms = wd.now_ms) =>
        wd.now_ms - wd.last_inc_ms <= WD_PERIOD_MS

(* ---------------- governors ---------------- *)

(* C22: under the performance governor, started at MIN_KHZ with every PLL *)
(* setting succeeding, current_khz is MAX_KHZ once 290 ms of tick time,   *)
(* the ticks' sleeps included, have elapsed.                              *)
Claim_C22_PerformanceReachesMaxIn290ms ==
    (cur_gov = "performance" /\ pc1 = "loop" /\ now_ms - BOOT_MS >= 290) =>
        current_khz = MAX_KHZ

(* the utilisation is more than 5 points away from the percentage of t *)
FarFrom(util, t) ==
    LET pct == ((t - MIN_KHZ) * 100) \div (MAX_KHZ - MIN_KHZ)
    IN  util - pct > 5 \/ pct - util > 5

(* C23: a schedutil tick replaces target_khz by                           *)
(* MIN_KHZ + (MAX_KHZ - MIN_KHZ) * util / 100 when util is more than 5    *)
(* points away from the percentage of the current target, and leaves it   *)
(* unchanged otherwise.                                                   *)
Claim_C23_SchedutilHysteresis ==
    last_call.fn = "sch_tick" =>
        target_khz = IF FarFrom(last_call.util, last_call.from_khz)
                     THEN MIN_KHZ + ((MAX_KHZ - MIN_KHZ) * last_call.util) \div 100
                     ELSE last_call.from_khz

SetInRange(mhz) ==
    mhz >= (MIN_KHZ + 999) \div 1000 /\ mhz <= MAX_KHZ \div 1000

(* C25: the shell's set stores mhz * 1000 in target_khz when that integer *)
(* lies in [MIN_KHZ, MAX_KHZ] and leaves target_khz unchanged otherwise.  *)
Claim_C25_SetValidatesTrueRequest ==
    [][\A mhz \in SetMhzSet :
          CmdSet(mhz) =>
              target_khz' = IF SetInRange(mhz) THEN mhz * 1000 ELSE target_khz]_vars

(* C26: a rejected tune set changes neither rp_params nor the stored      *)
(* tuning blob; after an accepted one the stored blob is valid and equal  *)
(* to the whole of rp_params.                                             *)
Claim_C26_TuneSetPersistsAll ==
    [][\A name \in TuneNameSet, val \in TuneValSet, alloc_ok \in BOOLEAN :
          TuneSet(name, val, alloc_ok) =>
              IF rp2040_perf_set_param_rc(name, val) = 0
              THEN flash_rp'.valid /\ flash_rp'.params = rp_params'
              ELSE rp_params' = rp_params /\ flash_rp' = flash_rp]_vars

(* ---------------- frequency and voltage records ---------------- *)

(* the step is made by ramp_step on core 1: its voltage raise before an   *)
(* up-step, or its end where current_khz and a down-step's voltage are    *)
(* written                                                                *)
RampEngineWrites ==
    \/ /\ pc1 = "loop" /\ pc1' = "lock"
       /\ current_khz' = current_khz
       /\ rs'.stepping_up
       /\ current_voltage_mv' = vreg_for_khz(rs'.next_khz)
    \/ pc1 = "post" /\ pc1' = "ret"

(* C27: current_khz and current_voltage_mv change only in ramp_step and   *)
(* its voltage helper, run by core 1; no governor init or tick and no     *)
(* shell command changes them.                                            *)
Claim_C27_OnlyRampEngineWrites ==
    [][(current_khz' /= current_khz \/ current_voltage_mv' /= current_voltage_mv)
          => RampEngineWrites]_vars

(* C28: whenever core 1 is not inside ramp_step, the recorded voltage is  *)
(* exactly the table voltage for the recorded frequency.                  *)
Claim_C28_VoltageExactlyMinimum ==
    pc1 \in {"loop", "ret"} => current_voltage_mv = MinSafeMv(current_khz)

(* C29: after a tick in which the adaptive governor took its thermal      *)
(* backoff, throttle_active is true (and a shell set then sees it true).  *)
Claim_C29_BackoffSetsThrottle ==
    (/\ last_call.fn = "rp_tick"
     /\ last_call.temp > rp_params.temp_backoff_C
     /\ last_call.metrics.target > rp_params.backoff_target_khz
     /\ last_call.to_khz = rp_params.backoff_target_khz)
        => throttle_active

(* ---------------- persist show ---------------- *)

(* a record / a tuning blob with correct magic, length and CRC is stored *)
RecStoredValid(rec) ==
    SubSeq(rec.bytes, 1, 4) = WordBytes(PERSIST_MAGIC) /\ rec.crc = simple_crc(rec.bytes)

BlobStoredValid(blob) ==
    /\ blob.magic = RP_PARAMS_MAGIC
    /\ blob.llen = WordOf(Len(blob.data)) /\ Len(blob.data) > 0
    /\ blob.crc = simple_crc(blob.data)

(* C30: persist show reports the governor name as present exactly when a  *)
(* valid record is stored, and the tuning as present exactly when a valid *)
(* tuning blob is stored, as after an accepted tune set.                  *)
Claim_C30_ShowReportsWhatIsStored ==
    last_call.fn = "cmd_persist" =>
        /\ last_call.shown.name_shown = RecStoredValid(last_call.rec)
        /\ last_call.shown.tuning_shown = BlobStoredValid(last_call.blob)

(* ---------------- adaptive governor: cooldown and steps ---------------- *)

(* the aggregate is high whatever its duration (intensity >= 90) *)
IsBurst(agg) == agg.count > 0 /\ agg.sum_int >= 90 * agg.count

(* C31: a change of target the metrics stage accepts comes more than      *)
(* cooldown_ms after the previous one, and a ramp-up asked for while the  *)
(* governor is not idle is accepted once more than ramp_up_cooldown_ms    *)
(* has elapsed.                                                           *)
Claim_C31_RampUpCooldownShortens ==
    last_call.fn = "rp_tick" =>
        /\ (last_call.metrics.target /= last_call.from_khz /\ ~IsBurst(last_call.agg))
               => last_call.elapsed > last_call.params.cooldown_ms
        /\ (/\ IsBurst(last_call.agg) /\ ~last_call.from_idle
            /\ last_call.from_khz < MAX_KHZ
            /\ last_call.elapsed > last_call.params.ramp_up_cooldown_ms)
               => last_call.metrics.target = MAX_KHZ

(* the aggregate is medium and not high for the tunables P *)
IsMedium(agg, P) ==
    /\ agg.count > 0
    /\ agg.sum_int >= P.thr_med_intensity * agg.count
    /\ agg.sum_dur >= P.dur_med_ms * agg.count
    /\ agg.sum_int < 90 * agg.count
    /\ ~(agg.sum_int >= P.thr_high_intensity * agg.count /\ agg.sum_dur >= P.dur_high_ms * agg.count)

(* C32: a tick entered in the active state, at a temperature that calls   *)
(* for no backoff, whose medium aggregate changes the target, ends with   *)
(* target_khz = min(230000, MAX_KHZ).                                     *)
Claim_C32_MediumStep ==
    (/\ last_call.fn = "rp_tick"
     /\ ~last_call.from_idle
     /\ IsMedium(last_call.agg, last_call.params)
     /\ last_call.metrics.target /= last_call.from_khz
     /\ last_call.temp <= last_call.params.temp_backoff_C)
        => last_call.to_khz = IF MAX_KHZ > 230000 THEN 230000 ELSE MAX_KHZ

(* ---------------- ondemand ---------------- *)

OND_HOT_C == 65
OND_BACKOFF_KHZ == 10000

(* C33: an ondemand tick at a temperature above 65 degrees entered with   *)
(* target_khz above MIN_KHZ lowers target_khz by 10 MHz, not below        *)
(* MIN_KHZ, whatever the intensity.                                       *)
Claim_C33_HotTickStepsDown ==
    (/\ last_call.fn = "ond_tick"
     /\ last_call.temp > OND_HOT_C
     /\ last_call.from_khz > MIN_KHZ)
        => last_call.to_khz = IF last_call.from_khz - OND_BACKOFF_KHZ < MIN_KHZ
                              THEN MIN_KHZ
                              ELSE last_call.from_khz - OND_BACKOFF_KHZ


Waits(c) == At(c, "enter") \/ At(c, "lockout_wait")

(* C34: no operation blocks forever: a core waiting for the lockout or    *)
(* for a mutex proceeds, a halted core 0 is resumed, and core 1 never     *)
(* waits for a mutex while it has requested or holds the lockout.         *)
Claim_C34_NoOperationBlocksForever ==
    /\ \A c \in Cores : Waits(c) ~> ~Waits(c)
    /\ (lockout /= "free") ~> (lockout = "free")
    /\ [](lockout /= "free" => ~At("c1", "enter"))

(* core 0 is halted inside dmesg_log with log_mutex, and core 1 is in a   *)
(* failing ramp_step that will log after the lockout                      *)
Wit_C34 ==
    /\ lockout = "held"
    /\ mtx["log_mutex"] = "c0"
    /\ \E i \in 1..Len(todo["c1"]) : todo["c1"][i] = <<"enter", "log_mutex">>

(* C37: when metrics_get_kernel_snapshot has returned, it returned 1      *)
(* exactly when the copy it made has a non-zero gov_tick_count.           *)
Claim_C37_ValidityMatchesCopy ==
    ks_ret /= -1 => (ks_ret = 1 <=> ks_out /= 0)

InRampTo == last_call.fn = "ramp_to" /\ ~last_call.done

(* a ramp_step that set the PLL leaves current_khz strictly nearer to its *)
(* target, on the same side of it                                         *)
StepCloser ==
    (pc1 = "post" /\ pc1' = "ret" /\ rs.ok) =>
        IF rs.stepping_up
        THEN current_khz < current_khz' /\ current_khz' <= rs.new_khz
        ELSE current_khz' < current_khz /\ current_khz' >= rs.new_khz

Claim_C36_TickingCoreNeverReset ==
    wd.resets = 0

(* the monitor has compared the counter with a sample it took a full      *)
(* window earlier, after a command had kept the main loop for longer than *)
(* a window                                                               *)
Wit_C36 ==
    /\ wd.last_ping_ms >= 2 * WD_PERIOD_MS
    /\ wd.last_ping_val > 0
    /\ wd.busy_until_ms > WD_PERIOD_MS
    /\ wd.resets = 0

(* C38: after the shell's set_current(g), no tick of g is started on      *)
(* core 1 before g's init has completed on core 0.                        *)
Claim_C38_NoTickBeforeInit ==
    [][Tick => ~(pc0 = "gov_init" /\ cur_gov = pend_gov)]_vars

(* C39: in every state the recorded current_voltage_mv equals the voltage *)
(* last programmed into the regulator (vreg_mv), also after the pre-warm  *)
(* of a governor tick.                                                    *)
Claim_C39_RecordedVoltageIsProgrammed ==
    current_voltage_mv = vreg_mv

(* C40: whenever no core is inside the metrics lock, cnt <= 128 and       *)
(* head = (tail + cnt) mod 128, and every sample submitted so far, by     *)
(* either core and also while the other core ran a consuming aggregate,   *)
(* has been counted by a consuming aggregate, is still in the buffer, or  *)
(* was overwritten as the oldest of a full buffer.                        *)
Thm_C40_RingConsistentNoneLost ==
    mtx["metrics_lock"] = "none" =>
        /\ m_cnt <= METRICS_BUF_SZ
        /\ m_head = (m_tail + m_cnt) % METRICS_BUF_SZ
        /\ m_n = last_call.consumed + m_cnt + last_call.dropped

(* both cores are back from their calls; a consuming aggregate counted a  *)
(* full buffer while the other core was inside metrics_submit, and that   *)
(* core's sample is in the buffer                                         *)
Wit_C40 ==
    /\ last_call.fn = "metrics"
    /\ last_call.overlap
    /\ \A c \in Cores : todo[c] = << >>
    /\ last_call.consumed = METRICS_BUF_SZ
    /\ m_cnt >= 1
====
